---- MODULE Spec2Model ----
(***************************************************************************)
(* The HTTP transport of the MCP legal server (src/src/http-server.ts):    *)
(* the session store, the idle sweep, and the POST / DELETE handlers of    *)
(* the MCP endpoint, with the fan-out of a batch onto an event stream.     *)
(*                                                                         *)
(* Node runs the handlers on one thread.  A handler's synchronous section  *)
(* is one step; the continuation of a task whose promise is already        *)
(* settled runs from the microtask queue, before any other handler, timer  *)
(* or socket event; a task awaiting the remote legal API resumes in a      *)
(* later turn of the event loop, after any number of other events.         *)
(***************************************************************************)
EXTENDS Integers, Sequences, FiniteSets, TLC

VARIABLES
    sessions,    \* const sessions = new Map<string, Session>()
    issued,      \* how many identifiers uuidv4() has handed out
    now,         \* Date.now()
    nextSweep,   \* the time at which the setInterval timer is next due
    call,        \* the POST call most recently received, with its response
    reply,       \* the response of the DELETE or GET being answered
    partition,   \* { requests, notifications, responses } of partitionMessages
    thoughtHistory  \* LegalToolsService.thoughtHistory of the one legalTools

vars == <<sessions, issued, now, nextSweep, call, reply, partition, thoughtHistory>>

----------------------------------------------------------------------------
\* Bounds of the model.

\* Sessions created in one run (identifiers 1..MaxSessions).
MaxSessions == 2

\* Requests in one array body.
MaxBatch == 2

\* Messages in one body handed to partitionMessages on its own.
MaxMessages == 3

\* Notifications, responses and nulls in one array body.
MaxExtras == 1

\* The clock advances in steps of a 1/TicksPerWindow of the timeout window.
TicksPerWindow == 2

\* The clock stops after MaxTicks steps.
MaxTicks == 3

\* legal_think is called successfully at most MaxThoughts times.
MaxThoughts == 3

\* The clock of the eviction runs stops after MaxSweepTicks steps.
MaxSweepTicks == 5

----------------------------------------------------------------------------
\* Program constants.

SESSION_TIMEOUT_MS == 30 * 60 * 1000

Tick == SESSION_TIMEOUT_MS \div TicksPerWindow

MaxNow == MaxTicks * Tick

\* ErrorCode of @modelcontextprotocol/sdk, by name.
MethodNotFound == "MethodNotFound"

InvalidParams == "InvalidParams"

InvalidRequest == "InvalidRequest"

InternalError == "InternalError"

\* Values standing for "undefined" in the source.
NoHeader == 0

NoMethod == "undefined"

NoName == "undefined"

NoVersion == "undefined"

\* The protocol versions of the MCP SDK, the latest first.
LATEST_PROTOCOL_VERSION == "2025-06-18"

SUPPORTED_PROTOCOL_VERSIONS ==
    << LATEST_PROTOCOL_VERSION, "2025-03-26", "2024-11-05", "2024-10-07" >>

\* A field that is present with a JSON value that is not a string (a number,
\* an object, null, ...).
NotAString == "not-a-string"

\* typeof v === 'string'
IsString(v) == v # NoMethod /\ v # NoName /\ v # NoVersion /\ v # NotAString

NoSession == 0

NoCode == "none"

SessionIds == 1..MaxSessions

----------------------------------------------------------------------------
\* JSON values of a body.  An element of an array body is an object or null;
\* an object has an optional method (a string, or absent/not a string), an
\* optional id, and under params an optional name.

\* params.arguments of a tools/call request, by what the tools read of it: the
\* kind of JSON value; in an object, the string field the tool requires
\* (thought, question, result, query): absent, a number, "" or a non-empty
\* string; and whether the other fields the tool validates pass.
Arguments(json, text, rest) == [json |-> json, text |-> text, rest |-> rest]

NoArguments == Arguments("undefined", "absent", "ok")

Obj(method, hasId, id, name) ==
    [json |-> "object", method |-> method, hasId |-> hasId, id |-> id, name |-> name,
     arguments |-> NoArguments, protocolVersion |-> NoVersion]

JsonNull ==
    [json |-> "null", method |-> NoMethod, hasId |-> FALSE, id |-> 0, name |-> NoName,
     arguments |-> NoArguments, protocolVersion |-> NoVersion]

\* An initialize request with params.protocolVersion.
Initialize(id, protocolVersion) ==
    [Obj("initialize", TRUE, id, NoName) EXCEPT !.protocolVersion = protocolVersion]

\* A tools/call request.
ToolCall(id, name, arguments) ==
    [Obj("tools/call", TRUE, id, name) EXCEPT !.arguments = arguments]

ValidArguments == Arguments("object", "string", "ok")

ArgumentInputs ==
    { NoArguments, Arguments("null", "absent", "ok"), Arguments("string", "absent", "ok") }
        \cup { Arguments("object", text, rest) :
                   text \in { "absent", "number", "empty", "string" },
                   rest \in { "ok", "bad" } }

\* params.name when it is a string: the four tools, an unknown tool, "".
ToolNameInputs ==
    { "legal_think", "legal_ask_followup_question", "legal_attempt_completion",
      "legal_verify_with_api", "unknown_tool", "" }

\* The requests clients send in this model.  Each request shape carries its
\* own id, so the ids of a batch are not the positions of its requests.
RequestInputs ==
    { Obj("initialize", TRUE, 11, NoName),
      Obj("ping", TRUE, 12, NoName),
      Obj("tools/list", TRUE, 13, NoName),
      ToolCall(14, "legal_verify_with_api", ValidArguments),
      Obj("tools/call", TRUE, 15, NoName),
      Obj("resources/list", TRUE, 16, NoName) }

\* The other array elements: notifications, a response, null.
ExtraInputs ==
    { Obj("initialized", FALSE, 0, NoName),
      Obj("notifications/progress", FALSE, 0, NoName),
      Obj("notifications/roots/list_changed", FALSE, 0, NoName),
      Obj(NoMethod, TRUE, 17, NoName),
      JsonNull }

RECURSIVE SeqsUpTo(_, _)
SeqsUpTo(S, n) ==
    IF n = 0 THEN { <<>> }
    ELSE LET shorter == SeqsUpTo(S, n - 1)
         IN  shorter \cup { Append(s, m) : s \in { t \in shorter : Len(t) = n - 1 }, m \in S }

\* req.body after express.json(): an array or a single object.
ArrayBody(items) == [shape |-> "array", items |-> items]

ObjectBody(m) == [shape |-> "object", items |-> <<m>>]

\* req.body when the JSON middleware did not parse the body.
UndefinedBody == [shape |-> "undefined", items |-> <<>>]

\* A body that is not JSON: the middleware fails on it.
MalformedBody == [shape |-> "malformed", items |-> <<>>]

\* Array bodies hold up to MaxExtras other elements, then up to MaxBatch
\* requests.
BodyInputs ==
    { ArrayBody(e \o r) : e \in SeqsUpTo(ExtraInputs, MaxExtras),
                          r \in SeqsUpTo(RequestInputs, MaxBatch) }
        \cup { ObjectBody(m) : m \in RequestInputs \cup ExtraInputs }
        \cup { UndefinedBody }

\* The Accept header, as the set of media types it names.
AcceptInputs == { { "application/json", "text/event-stream" }, { "text/html" } }

ContentTypeInputs == { "application/json", "text/plain" }

\* The Mcp-Session-Id request header: absent, or an identifier.
SessionHeaderInputs == { NoHeader } \cup { i : i \in SessionIds }

----------------------------------------------------------------------------
\* Pure functions of http-server.ts.

\* enforceAcceptHeader: the 406 condition.
AcceptOk(accept) ==
    "application/json" \in accept \/ "text/event-stream" \in accept

\* enforceJsonContent: the 415 condition.
ContentTypeOk(contentType) == contentType = "application/json"

\* normalizeMessages: an array is returned as it is, an object is wrapped.
normalizeMessages(body) ==
    IF body.shape \in { "array", "object" }
    THEN [ok |-> TRUE, messages |-> body.items]
    ELSE [ok |-> FALSE, messages |-> <<>>]

isRequest(message) == IsString(message.method) /\ message.hasId

isNotification(message) == IsString(message.method) /\ ~message.hasId

\* Mutant of PartitionLoop: a request is put at the front of its list.
RECURSIVE PartitionLoop_Unshift(_, _)
PartitionLoop_Unshift(messages, acc) ==
    IF messages = <<>> THEN acc
    ELSE LET message == Head(messages)
             pushed ==
                 IF isRequest(message)
                 THEN [acc EXCEPT !.requests = <<message>> \o @]
                 ELSE IF isNotification(message)
                 THEN [acc EXCEPT !.notifications = Append(@, message)]
                 ELSE [acc EXCEPT !.responses = Append(@, message)]
         IN  PartitionLoop_Unshift(Tail(messages), pushed)

\* partitionMessages: the loop over the messages, pushing each onto one of the
\* three lists.
RECURSIVE PartitionLoop(_, _)
PartitionLoop(messages, acc) ==
    IF messages = <<>> THEN acc
    ELSE LET message == Head(messages)
             pushed ==
                 IF isRequest(message)
                 THEN [acc EXCEPT !.requests = Append(@, message)]
                 ELSE IF isNotification(message)
                 THEN [acc EXCEPT !.notifications = Append(@, message)]
                 ELSE [acc EXCEPT !.responses = Append(@, message)]
         IN  PartitionLoop(Tail(messages), pushed)

partitionMessages(messages) ==
    PartitionLoop(messages, [requests |-> <<>>, notifications |-> <<>>, responses |-> <<>>])

\* isRequest reads message.method: on a null element that is a TypeError.
HasNull(messages) == \E i \in 1..Len(messages) : messages[i].json = "null"

----------------------------------------------------------------------------
\* The session store.

\* interface Session, without createdAt: the field is written once, by
\* createSession, and nothing reads it.
Session(id, t) ==
    [id |-> id, lastActivity |-> t, initialized |-> FALSE]

\* sessions.set(id, session)
MapSet(store, id, session) ==
    [k \in DOMAIN store \cup { id } |-> IF k = id THEN session ELSE store[k]]

\* sessions.delete(id)
MapDelete(store, id) == [k \in DOMAIN store \ { id } |-> store[k]]

\* Mutant of uuidv4: the same identifier every time.
uuidv4_Constant(n) == 1

\* uuidv4(): an identifier never handed out before.
uuidv4(n) == n + 1

\* createSession: the store with the new session in it.
createSession(store, n, t) ==
    MapSet(store, uuidv4(n), Session(uuidv4(n), t))

\* requireSessionHeader: whether the header passes (`!sessionId` otherwise).
requireSessionHeader(sessionId) == sessionId # NoHeader

\* Mutant of loadSession: the lookup is not checked.
loadSession_Unchecked(store, sessionId) == TRUE

\* loadSession: whether sessions.get(sessionId) finds a session.
loadSession(store, sessionId) == sessionId \in DOMAIN store

\* Mutant of touchSession: activity also marks the session initialized.
touchSession_Initializes(store, id, t) ==
    [store EXCEPT ![id].lastActivity = t, ![id].initialized = TRUE]

\* touchSession on the session stored under id.
touchSession(store, id, t) == [store EXCEPT ![id].lastActivity = t]

\* Mutant of ApplyNotification: `initialized` does not refresh the activity.
ApplyNotification_NoTouch(store, id, notification, t) ==
    IF notification.method = "initialized"
    THEN [store EXCEPT ![id].initialized = TRUE]
    ELSE store

\* Mutant of ApplyNotification: a progress notification clears the flag.
ApplyNotification_ProgressResets(store, id, notification, t) ==
    IF notification.method = "initialized"
    THEN touchSession([store EXCEPT ![id].initialized = TRUE], id, t)
    ELSE IF notification.method \in { "notifications/cancelled", "notifications/progress" }
    THEN touchSession([store EXCEPT ![id].initialized = FALSE], id, t)
    ELSE store

\* One turn of the loop of processNotifications on the session under id.
ApplyNotification(store, id, notification, t) ==
    IF notification.method = "initialized"
    THEN touchSession([store EXCEPT ![id].initialized = TRUE], id, t)
    ELSE IF notification.method \in { "notifications/cancelled", "notifications/progress" }
    THEN touchSession(store, id, t)
    ELSE store

RECURSIVE NotificationLoop(_, _, _, _)
NotificationLoop(store, id, notifications, t) ==
    IF notifications = <<>> THEN store
    ELSE NotificationLoop(ApplyNotification(store, id, Head(notifications), t),
                          id, Tail(notifications), t)

\* Mutant of processNotifications: notifications without a session are
\* dropped instead of refused.
processNotifications_Lenient(store, headerSessionId, notifications, t) ==
    IF notifications = <<>> \/ headerSessionId = NoHeader
           \/ headerSessionId \notin DOMAIN store
    THEN [status |-> 0, error |-> "", sessions |-> store]
    ELSE [status |-> 0, error |-> "",
          sessions |-> NotificationLoop(store, headerSessionId, notifications, t)]

\* processNotifications: the HttpError it throws (status 0: none) and the store
\* it leaves.
processNotifications(store, headerSessionId, notifications, t) ==
    IF notifications = <<>>
    THEN [status |-> 0, error |-> "", sessions |-> store]
    ELSE IF ~requireSessionHeader(headerSessionId)
    THEN [status |-> 400, error |-> "Missing Mcp-Session-Id header", sessions |-> store]
    ELSE IF ~loadSession(store, headerSessionId)
    THEN [status |-> 404, error |-> "Session not found", sessions |-> store]
    ELSE [status |-> 0, error |-> "",
          sessions |-> NotificationLoop(store, headerSessionId, notifications, t)]

----------------------------------------------------------------------------
\* The request dispatcher.

\* A per-request task of the batch.  pc: "queued" (its promise is settled and
\* its continuation is in the microtask queue), "awaiting" (suspended in
\* callTool), "done" (its frame is written).
\* observed: the session bound to the batch as it stood when the request was
\* dispatched (NoObservation when none is bound).
NoObservation == [id |-> NoSession, lastActivity |-> 0, initialized |-> FALSE]

\* called: toolsService.callTool was called for the request.
Task(pc, kind, error, payload, newSessionId) ==
    [pc |-> pc, kind |-> kind, error |-> error, payload |-> payload,
     newSessionId |-> newSessionId, observed |-> NoObservation, called |-> FALSE,
     thoughtHistoryLength |-> 0]

\* The task of a request whose dispatch called toolsService.callTool.
Called(task) == [task EXCEPT !.called = TRUE]

\* The task of a request dispatched with this session on this store.
Observe(task, store, session) ==
    [task EXCEPT !.observed =
        IF session \in DOMAIN store THEN store[session] ELSE NoObservation]

\* class RpcError, and the absence of an error.
RpcError(code, message) == [name |-> "RpcError", code |-> code, message |-> message]

NoError == [name |-> "none", code |-> NoCode, message |-> ""]

\* ensureSession: whether a session is bound.
ensureSession(session) == session # NoSession

\* The try block of a tool throws before it returns or awaits: reading a
\* field of undefined or null is a TypeError (`!input` in the verify tool), and
\* the validation throws an Error when the required string is missing, not a
\* string or empty, or (legal_think, legal_verify_with_api) another validated
\* field is wrong.
ToolBodyThrows(name, arguments) ==
    \/ arguments.json \in { "undefined", "null" }
    \/ arguments.json # "object"
    \/ arguments.text # "string"
    \/ name \in { "legal_think", "legal_verify_with_api" } /\ arguments.rest = "bad"

\* logger.formatThought, logger.info and console.error, between the push and
\* the return of processLegalThink: they write a log line and return.
formatThoughtThrows == FALSE

\* Mutant of processLegalThink: the entry is pushed before the input is
\* validated.
processLegalThink_PushFirst(history, arguments, session) ==
    LET pushed == Append(history, [session |-> session])
    IN  IF ToolBodyThrows("legal_think", arguments) \/ formatThoughtThrows
        THEN [history |-> pushed, thoughtHistoryLength |-> 0]
        ELSE [history |-> pushed, thoughtHistoryLength |-> Len(pushed)]

\* processLegalThink on thoughtHistory: a call whose input fails validation
\* leaves the list alone; otherwise one entry is pushed and the result reports
\* the length of the list (0 stands for a result without that field).  An
\* entry is labelled with the session of the caller, which the code does not
\* store.
processLegalThink(history, arguments, session) ==
    IF ToolBodyThrows("legal_think", arguments)
    THEN [history |-> history, thoughtHistoryLength |-> 0]
    ELSE LET pushed == Append(history, [session |-> session])
         IN  IF formatThoughtThrows
             THEN [history |-> pushed, thoughtHistoryLength |-> 0]
             ELSE [history |-> pushed, thoughtHistoryLength |-> Len(pushed)]

\* The legal_think calls among the dispatched requests of a batch, in the
\* order of dispatch: the list after them, and each task with the length its
\* result reports.
RECURSIVE ThinkLoop(_, _, _, _)
ThinkLoop(history, requests, tasks, session) ==
    IF requests = <<>> \/ tasks = <<>> THEN [history |-> history, tasks |-> <<>>]
    ELSE LET request == Head(requests)
             task == Head(tasks)
             thinks == task.called /\ request.name = "legal_think"
             r == processLegalThink(history, request.arguments, session)
             rest == ThinkLoop(IF thinks THEN r.history ELSE history,
                               Tail(requests), Tail(tasks), session)
         IN  [history |-> rest.history,
              tasks |-> << IF thinks
                           THEN [task EXCEPT !.thoughtHistoryLength = r.thoughtHistoryLength]
                           ELSE task >> \o rest.tasks]

\* What callTool has produced when handleRpcRequest's await takes it up: a
\* value ("returned", flagged isError or not), a promise pending on the remote
\* API, or an exception ("thrown").
ToolOutcome(state, isError) == [state |-> state, isError |-> isError]

\* Mutant of callTool: the tools have no catch block.
callTool_NoCatch(name, arguments) ==
    IF name \in { "legal_think", "legal_ask_followup_question", "legal_attempt_completion" }
    THEN IF ToolBodyThrows(name, arguments)
         THEN ToolOutcome("thrown", FALSE)
         ELSE ToolOutcome("returned", FALSE)
    ELSE IF name = "legal_verify_with_api"
    THEN IF ToolBodyThrows(name, arguments)
         THEN ToolOutcome("thrown", FALSE)
         ELSE ToolOutcome("pending", FALSE)
    ELSE ToolOutcome("returned", TRUE)

\* LegalToolsService.callTool: each tool runs in a try block whose catch
\* returns handleToolError's result (isError: true); the verify tool awaits
\* the remote API once its input is validated; an unknown name is an isError
\* result.
callTool(name, arguments) ==
    IF name \in { "legal_think", "legal_ask_followup_question", "legal_attempt_completion" }
    THEN IF ToolBodyThrows(name, arguments)
         THEN ToolOutcome("returned", TRUE)
         ELSE ToolOutcome("returned", FALSE)
    ELSE IF name = "legal_verify_with_api"
    THEN IF ToolBodyThrows(name, arguments)
         THEN ToolOutcome("returned", TRUE)
         ELSE ToolOutcome("pending", FALSE)
    ELSE ToolOutcome("returned", TRUE)

\* An exception that is not an RpcError.
ThrownError == [name |-> "Error", code |-> NoCode, message |-> "thrown"]

\* Mutant of UnsupportedMethod: the wrong error code.
UnsupportedMethod_InvalidRequest == RpcError(InvalidRequest, "Unsupported method")

\* The default branch of handleRpcRequest throws this.
UnsupportedMethod == RpcError(MethodNotFound, "Unsupported method")

\* Mutant of NegotiateVersion: a requested version that is a string is echoed.
NegotiateVersion_Echo(requestedVersion) ==
    IF IsString(requestedVersion) THEN requestedVersion ELSE LATEST_PROTOCOL_VERSION

\* protocolVersion of the initialize result.
NegotiateVersion(requestedVersion) ==
    IF /\ IsString(requestedVersion)
       /\ \E k \in DOMAIN SUPPORTED_PROTOCOL_VERSIONS :
              SUPPORTED_PROTOCOL_VERSIONS[k] = requestedVersion
    THEN requestedVersion
    ELSE LATEST_PROTOCOL_VERSION

\* Mutant of IsToolName: any params.name passes.
IsToolName_Any(name) == TRUE

\* The test of the tools/call branch on params.name (its negation throws
\* InvalidParams).
IsToolName(name) == IsString(name)

\* handleRpcRequest up to its first suspension: the store and the identifiers
\* it leaves, and the task as it stands then.
handleRpcRequest(request, session, store, n, t) ==
    IF request.method = "initialize"
    THEN [sessions |-> createSession(store, n, t),
          issued   |-> uuidv4(n),
          task     |-> Task("queued", "result", NoError,
                            NegotiateVersion(request.protocolVersion), uuidv4(n))]
    ELSE IF request.method \in { "ping", "tools/list", "tools/call" }
    THEN IF ~ensureSession(session)
         THEN [sessions |-> store, issued |-> n,
               task |-> Task("queued", "error",
                         RpcError(InvalidRequest, "Request requires an active session"), "", NoSession)]
         ELSE LET touched == touchSession(store, session, t)
              IN  IF request.method = "ping"
                  THEN [sessions |-> touched, issued |-> n,
                        task |-> Task("queued", "result", NoError, "{}", NoSession)]
                  ELSE IF request.method = "tools/list"
                  THEN [sessions |-> touched, issued |-> n,
                        task |-> Task("queued", "result", NoError, "tools", NoSession)]
                  ELSE IF ~IsToolName(request.name)
                  THEN [sessions |-> touched, issued |-> n,
                        task |-> Task("queued", "error",
                                     RpcError(InvalidParams, "Tool name is required"), "", NoSession)]
                  ELSE LET toolResult == callTool(request.name, request.arguments)
                       IN  IF toolResult.state = "thrown"
                           THEN [sessions |-> touched, issued |-> n,
                                 task |-> Called(Task("queued", "error", ThrownError, "",
                                                      NoSession))]
                           ELSE IF toolResult.state = "pending"
                           THEN [sessions |-> touched, issued |-> n,
                                 task |-> Called(Task("awaiting", "pending", NoError, "",
                                                      NoSession))]
                           ELSE [sessions |-> touched, issued |-> n,
                                 task |-> Called(Task("queued", "result", NoError,
                                              IF toolResult.isError THEN "isError" ELSE "content",
                                              NoSession))]
    ELSE [sessions |-> store, issued |-> n,
          task |-> Task("queued", "error", UnsupportedMethod, "", NoSession)]

\* Mutant of LaunchTasks: a request that throws ends the loop, as it would
\* without the try/catch of the task.
RECURSIVE LaunchTasks_StopAtFailure(_, _, _, _)
LaunchTasks_StopAtFailure(requests, session, acc, t) ==
    IF requests = <<>> THEN acc
    ELSE LET r == handleRpcRequest(Head(requests), session, acc.sessions, acc.issued, t)
             next == [sessions |-> r.sessions, issued |-> r.issued,
                      tasks |-> Append(acc.tasks, Observe(r.task, acc.sessions, session))]
         IN  IF r.task.kind = "error" THEN next
             ELSE LaunchTasks_StopAtFailure(Tail(requests), session, next, t)

\* requests.map(async (request) => ...): every task runs, in submission order,
\* up to its first await.
RECURSIVE LaunchTasks(_, _, _, _)
LaunchTasks(requests, session, acc, t) ==
    IF requests = <<>> THEN acc
    ELSE LET r == handleRpcRequest(Head(requests), session, acc.sessions, acc.issued, t)
         IN  LaunchTasks(Tail(requests), session,
                         [sessions |-> r.sessions, issued |-> r.issued,
                          tasks |-> Append(acc.tasks,
                                           Observe(r.task, acc.sessions, session))], t)

\* Mutant of createErrorResponse: the frame does not carry the request's id.
createErrorResponse_NullId(id, error, i) ==
    [id |-> 0, kind |-> "error", code |-> InternalError,
     message |-> "Internal server error", payload |-> "", task |-> i]

\* Mutant of createErrorResponse: the message of the error is passed on.
createErrorResponse_LeaksMessage(id, error, i) ==
    IF error.name = "RpcError"
    THEN [id |-> id, kind |-> "error", code |-> error.code,
          message |-> error.message, payload |-> "", task |-> i]
    ELSE [id |-> id, kind |-> "error", code |-> InternalError,
          message |-> error.message, payload |-> "", task |-> i]

\* createErrorResponse: an RpcError keeps its code and message, anything else
\* becomes InternalError.
createErrorResponse(id, error, i) ==
    IF error.name = "RpcError"
    THEN [id |-> id, kind |-> "error", code |-> error.code,
          message |-> error.message, payload |-> "", task |-> i]
    ELSE [id |-> id, kind |-> "error", code |-> InternalError,
          message |-> "Internal server error", payload |-> "", task |-> i]

\* The success frame built in the task: { jsonrpc, id: request.id, result }.
ResultFrame(id, payload, i) ==
    [id |-> id, kind |-> "result", code |-> NoCode, message |-> "",
     payload |-> payload, task |-> i]

----------------------------------------------------------------------------
\* The POST handler.

UnreadBody == [shape |-> "unread", items |-> <<>>]

\* A call: what the handler read of the request (accept, contentType,
\* sessionId, body), when (at) and on which store (pre), and its response:
\* the status line, the error of a plain JSON answer, the state of the event
\* stream, the values set for the Mcp-Session-Id response header, the session
\* bound to the batch, the tasks of its requests and the frames written.
Call(accept, contentType, sessionId, body, t, pre) ==
    [accept |-> accept, contentType |-> contentType, sessionId |-> sessionId,
     body |-> body, at |-> t, pre |-> pre,
     status |-> 0, error |-> "", stream |-> "none", sessionIdHeader |-> <<>>,
     session |-> NoSession, tasks |-> <<>>, frames |-> <<>>]

\* Mutant of HttpError: the error is written after the stream was opened.
HttpError_Streamed(c, status, message) ==
    [c EXCEPT !.status = status, !.error = message, !.stream = "ended"]

\* handleHttpError on an HttpError: res.status(error.status).json({ error }).
HttpError(c, status, message) == [c EXCEPT !.status = status, !.error = message]

\* handleHttpError on any other exception.
handleHttpError(c) == [c EXCEPT !.status = 500, !.error = "Internal server error"]

\* Mutant of HasInitialize: no batch counts as a handshake.
HasInitialize_Never(requests) == FALSE

HasInitialize(requests) ==
    \E i \in 1..Len(requests) : requests[i].method = "initialize"

\* Mutant of RequiresSession: no batch requires a session.
RequiresSession_Never(requests) == FALSE

\* Mutant of RequiresSession: every batch requires a session.
RequiresSession_Always(requests) == TRUE

RequiresSession(requests) ==
    \E i \in 1..Len(requests) : requests[i].method # "initialize"

\* Mutant of HandlePost: the requests are dispatched first, the notifications
\* applied after them.
HandlePost_DispatchFirst(c, store, n, t) ==
    LET stay(r) == [sessions |-> store, issued |-> n, call |-> r]
        norm == normalizeMessages(c.body)
        messages == norm.messages
        parts == partitionMessages(messages)
        requests == parts.requests
        notified == processNotifications(store, c.sessionId, parts.notifications, t)
        store1 == notified.sessions
        kept(r) == [sessions |-> store1, issued |-> n, call |-> r]
        session ==
            IF RequiresSession(requests) THEN c.sessionId
            ELSE IF c.sessionId # NoHeader /\ c.sessionId \in DOMAIN store
            THEN c.sessionId
            ELSE NoSession
        launched == LaunchTasks(requests, session,
                                [sessions |-> store, issued |-> n, tasks |-> <<>>], t)
    IN  IF ~norm.ok THEN stay(HttpError(c, 400, "Invalid JSON-RPC payload"))
        ELSE IF Len(messages) = 0 THEN stay(HttpError(c, 400, "Empty JSON-RPC payload"))
        ELSE IF HasNull(messages) THEN stay(handleHttpError(c))
        ELSE IF notified.status # 0 THEN stay(HttpError(c, notified.status, notified.error))
        ELSE IF Len(requests) = 0 THEN kept([c EXCEPT !.status = 202])
        ELSE IF HasInitialize(requests) /\ Len(requests) > 1
        THEN kept(HttpError(c, 400, "Initialize request must be sent separately."))
        ELSE IF RequiresSession(requests) /\ ~requireSessionHeader(c.sessionId)
        THEN kept(HttpError(c, 400, "Missing Mcp-Session-Id header"))
        ELSE IF RequiresSession(requests) /\ ~loadSession(store1, c.sessionId)
        THEN kept(HttpError(c, 404, "Session not found"))
        ELSE [sessions |-> processNotifications(launched.sessions, c.sessionId,
                                                parts.notifications, t).sessions,
              issued   |-> launched.issued,
              call     |-> [c EXCEPT !.status = 200, !.stream = "open",
                                     !.session = session, !.tasks = launched.tasks]]

\* The synchronous section of app.post(MCP_ENDPOINT) from normalizeMessages on:
\* the store, the identifiers and the call it leaves.
HandlePost(c, store, n, t) ==
    LET stay(r) == [sessions |-> store, issued |-> n, call |-> r]
        norm == normalizeMessages(c.body)
        messages == norm.messages
        parts == partitionMessages(messages)
        requests == parts.requests
        notified == processNotifications(store, c.sessionId, parts.notifications, t)
        store1 == notified.sessions
        kept(r) == [sessions |-> store1, issued |-> n, call |-> r]
        session ==
            IF RequiresSession(requests) THEN c.sessionId
            ELSE IF c.sessionId # NoHeader /\ c.sessionId \in DOMAIN store1
            THEN c.sessionId
            ELSE NoSession
        launched == LaunchTasks(requests, session,
                                [sessions |-> store1, issued |-> n, tasks |-> <<>>], t)
    IN  IF ~norm.ok THEN stay(HttpError(c, 400, "Invalid JSON-RPC payload"))
        ELSE IF Len(messages) = 0 THEN stay(HttpError(c, 400, "Empty JSON-RPC payload"))
        ELSE IF HasNull(messages) THEN stay(handleHttpError(c))
        ELSE IF notified.status # 0 THEN stay(HttpError(c, notified.status, notified.error))
        ELSE IF Len(requests) = 0 THEN kept([c EXCEPT !.status = 202])
        ELSE IF HasInitialize(requests) /\ Len(requests) > 1
        THEN kept(HttpError(c, 400, "Initialize request must be sent separately."))
        ELSE IF RequiresSession(requests) /\ ~requireSessionHeader(c.sessionId)
        THEN kept(HttpError(c, 400, "Missing Mcp-Session-Id header"))
        ELSE IF RequiresSession(requests) /\ ~loadSession(store1, c.sessionId)
        THEN kept(HttpError(c, 404, "Session not found"))
        ELSE [sessions |-> launched.sessions,
              issued   |-> launched.issued,
              call     |-> [c EXCEPT !.status = 200, !.stream = "open",
                                     !.session = session, !.tasks = launched.tasks]]

----------------------------------------------------------------------------
\* The state machine.

EmptyStore == [k \in {} |-> Session(k, 0)]

\* No call has been received yet.
NoCall == Call({}, "", NoHeader, UnreadBody, 0, EmptyStore)

\* The response of a DELETE or GET on the MCP endpoint: the verb and the
\* Mcp-Session-Id header of the request, the status line and the error of the
\* JSON body (none on 204).
Reply(verb, sessionId, status, error) ==
    [verb |-> verb, sessionId |-> sessionId, status |-> status, error |-> error]

\* No DELETE or GET is being answered.
NoReply == Reply("none", NoHeader, 0, "")

\* partitionMessages has not run.
NoParts == [done |-> FALSE, requests |-> <<>>, notifications |-> <<>>, responses |-> <<>>]

Init ==
    /\ sessions = EmptyStore
    /\ issued = 0
    /\ now = 0
    /\ nextSweep = SESSION_TIMEOUT_MS
    /\ call = NoCall
    /\ reply = NoReply
    /\ partition = NoParts
    /\ thoughtHistory = <<>>

\* The requests of the batch of call c, in submission order.
Requests(c) == partitionMessages(normalizeMessages(c.body).messages).requests

AllDone(c) == \A i \in 1..Len(c.tasks) : c.tasks[i].pc = "done"

\* The microtask queue is not empty: a settled task has its frame to write, or
\* Promise.all has resolved and res.end() is next.
MicrotasksPending ==
    /\ call.stream = "open"
    /\ \/ \E i \in 1..Len(call.tasks) : call.tasks[i].pc = "queued"
       \/ AllDone(call)

\* The response of the call is complete: a plain answer, or an ended stream.
Answered == call # NoCall /\ call.stream # "open"

\* The POST handler has work left in the turn of the event loop that is
\* running: microtasks, or the completed exchange to let go of.
Running == MicrotasksPending \/ Answered

\* A new event (a POST, a timer, a reply of the remote API) is taken up only
\* after that work, and after the DELETE or GET being answered.
Busy == Running \/ reply # NoReply

\* The model follows one POST at a time: the next one is received once the
\* exchange of the last one is over.
CanReceive == call = NoCall /\ reply = NoReply

\* POST with an Accept header naming neither JSON nor an event stream.
PostNotAcceptable(accept) ==
    /\ CanReceive
    /\ ~AcceptOk(accept)
    /\ call' = HttpError(Call(accept, "", NoHeader, UnreadBody, now, sessions), 406,
                         "Clients must include application/json or text/event-stream in the Accept header.")
    /\ UNCHANGED <<sessions, issued, now, nextSweep, reply, partition, thoughtHistory>>

\* POST with a Content-Type other than JSON.
PostUnsupportedMediaType(accept, contentType) ==
    /\ CanReceive
    /\ AcceptOk(accept)
    /\ ~ContentTypeOk(contentType)
    /\ call' = HttpError(Call(accept, contentType, NoHeader, UnreadBody, now, sessions),
                         415, "Content-Type must be application/json")
    /\ UNCHANGED <<sessions, issued, now, nextSweep, reply, partition, thoughtHistory>>

\* POST with a body that is not JSON: express.json() fails and the error
\* middleware answers, before the handler reads anything.
PostMalformedJson ==
    /\ CanReceive
    /\ call' = [Call({}, "application/json", NoHeader, MalformedBody, now, sessions)
                    EXCEPT !.status = 500, !.error = "Internal server error"]
    /\ UNCHANGED <<sessions, issued, now, nextSweep, reply, partition, thoughtHistory>>

\* POST with acceptable headers: the handler up to `await Promise.all(tasks)`.
Post(accept, contentType, sessionId, body) ==
    /\ CanReceive
    /\ AcceptOk(accept)
    /\ ContentTypeOk(contentType)
    /\ LET r == HandlePost(Call(accept, contentType, sessionId, body, now, sessions),
                           sessions, issued, now)
           thought == ThinkLoop(thoughtHistory, Requests(r.call), r.call.tasks,
                                r.call.session)
       IN  /\ r.issued <= MaxSessions
           /\ Len(thought.history) <= MaxThoughts
           /\ sessions' = r.sessions
           /\ issued' = r.issued
           /\ call' = [r.call EXCEPT !.tasks = thought.tasks]
           /\ thoughtHistory' = thought.history
    /\ UNCHANGED <<now, nextSweep, reply, partition>>

\* Mutant of SetSessionIdHeader: the header is never set.
SetSessionIdHeader_Never(header, task) == header

\* if (newSessionId && !sessionIdResponseSet) res.setHeader('Mcp-Session-Id', ...):
\* the values set for the header so far, and after this task.
SetSessionIdHeader(header, task) ==
    IF task.newSessionId # NoSession /\ header = <<>>
    THEN Append(header, task.newSessionId)
    ELSE header

\* The continuation of task i after `await handleRpcRequest(...)`: the
\* Mcp-Session-Id header on the first new session, then the frame.
\* Mutant of sendSseMessage: the frame is placed by the position of its request
\* in the batch.
sendSseMessage_BySubmission(frames, frame) ==
    LET before == SelectSeq(frames, LAMBDA f : f.task < frame.task)
        after  == SelectSeq(frames, LAMBDA f : f.task >= frame.task)
    IN  before \o <<frame>> \o after

\* sendSseMessage: res.write of one event, after everything written so far.
sendSseMessage(frames, frame) == Append(frames, frame)

\* res.headersSent: the first res.write sends the status line and the headers.
headersSent(c) == c.frames # <<>>

\* What res.setHeader throws once the headers are sent.
HeadersSentError ==
    [name |-> "Error", code |-> "ERR_HTTP_HEADERS_SENT",
     message |-> "Cannot set headers after they are sent to the client"]

\* Mutant of EmitFrame: the error of a failed request goes to the handler's
\* outer catch.
EmitFrame_Rethrow(i) ==
    /\ call.stream = "open"
    /\ i \in 1..Len(call.tasks)
    /\ call.tasks[i].pc = "queued"
    /\ LET task == call.tasks[i]
           request == Requests(call)[i]
       IN  call' = IF task.kind = "result"
                   THEN [call EXCEPT
                            !.sessionIdHeader = SetSessionIdHeader(@, task),
                            !.frames = sendSseMessage(@, ResultFrame(request.id,
                                                                     task.payload, i)),
                            !.tasks[i].pc = "done"]
                   ELSE [handleHttpError(call) EXCEPT !.tasks[i].pc = "done"]
    /\ UNCHANGED <<sessions, issued, now, nextSweep, reply, partition, thoughtHistory>>

EmitFrame(i) ==
    /\ call.stream = "open"
    /\ i \in 1..Len(call.tasks)
    /\ call.tasks[i].pc = "queued"
    /\ LET task == call.tasks[i]
           request == Requests(call)[i]
           thrown == task.kind = "result"
                         /\ SetSessionIdHeader(call.sessionIdHeader, task)
                                # call.sessionIdHeader
                         /\ headersSent(call)
           frame == IF task.kind = "result" /\ ~thrown
                    THEN ResultFrame(request.id, task.payload, i)
                    ELSE createErrorResponse(request.id,
                                             IF thrown THEN HeadersSentError ELSE task.error,
                                             i)
       IN  call' = [call EXCEPT
                       !.sessionIdHeader =
                           IF task.kind = "result" /\ ~thrown
                           THEN SetSessionIdHeader(@, task)
                           ELSE @,
                       !.frames = sendSseMessage(@, frame),
                       !.tasks[i].pc = "done"]
    /\ UNCHANGED <<sessions, issued, now, nextSweep, reply, partition, thoughtHistory>>

\* Mutant of ToolReturns: the resumed task stores its session again, with a
\* fresh last activity.
ToolReturns_StoresSession(i, isError) ==
    /\ call.stream = "open"
    /\ ~Busy
    /\ i \in 1..Len(call.tasks)
    /\ call.tasks[i].pc = "awaiting"
    /\ call' = [call EXCEPT
                   !.tasks[i] = [Task("queued", "result", NoError,
                                      IF isError THEN "isError" ELSE "content", NoSession)
                                     EXCEPT !.observed = call.tasks[i].observed,
                                            !.called = call.tasks[i].called,
                                            !.thoughtHistoryLength =
                                                call.tasks[i].thoughtHistoryLength]]
    /\ sessions' = MapSet(sessions, call.session,
                          [call.pre[call.session] EXCEPT !.lastActivity = now])
    /\ UNCHANGED <<issued, now, nextSweep, reply, partition, thoughtHistory>>

\* The remote API answers (or fails) and callTool resolves for task i: both
\* ways the tool result is a value, flagged isError on failure.
ToolReturns(i, isError) ==
    /\ call.stream = "open"
    /\ ~Busy
    /\ i \in 1..Len(call.tasks)
    /\ call.tasks[i].pc = "awaiting"
    /\ call' = [call EXCEPT
                   !.tasks[i] = [Task("queued", "result", NoError,
                                      IF isError THEN "isError" ELSE "content", NoSession)
                                     EXCEPT !.observed = call.tasks[i].observed,
                                            !.called = call.tasks[i].called,
                                            !.thoughtHistoryLength =
                                                call.tasks[i].thoughtHistoryLength]]
    /\ UNCHANGED <<sessions, issued, now, nextSweep, reply, partition, thoughtHistory>>

\* Mutant of EndStream: res.end() does not wait for the tasks.
EndStream_Early ==
    /\ call.stream = "open"
    /\ call' = [call EXCEPT !.stream = "ended"]
    /\ UNCHANGED <<sessions, issued, now, nextSweep, reply, partition, thoughtHistory>>

\* await Promise.all(tasks); res.end()
EndStream ==
    /\ call.stream = "open"
    /\ AllDone(call)
    /\ call' = [call EXCEPT !.stream = "ended"]
    /\ UNCHANGED <<sessions, issued, now, nextSweep, reply, partition, thoughtHistory>>

\* The exchange is over: the response is with the client and the handler's
\* frame is gone.
Finish ==
    /\ Answered
    /\ call' = NoCall
    /\ UNCHANGED <<sessions, issued, now, nextSweep, reply, partition, thoughtHistory>>

\* Mutant of HandleDelete: the session is reported deleted and stays.
HandleDelete_KeepsSession(store, sessionId) ==
    IF sessionId = NoHeader
    THEN [sessions |-> store, status |-> 400, error |-> "Missing Mcp-Session-Id header"]
    ELSE IF sessionId \notin DOMAIN store
    THEN [sessions |-> store, status |-> 404, error |-> "Session not found"]
    ELSE [sessions |-> store, status |-> 204, error |-> ""]

\* The handler of app.delete(MCP_ENDPOINT): the store it leaves and its answer.
HandleDelete(store, sessionId) ==
    IF sessionId = NoHeader
    THEN [sessions |-> store, status |-> 400, error |-> "Missing Mcp-Session-Id header"]
    ELSE IF sessionId \notin DOMAIN store
    THEN [sessions |-> store, status |-> 404, error |-> "Session not found"]
    ELSE [sessions |-> MapDelete(store, sessionId), status |-> 204, error |-> ""]

\* app.delete(MCP_ENDPOINT); a client may send it again at once.
Delete(sessionId) ==
    /\ ~Running
    /\ LET r == HandleDelete(sessions, sessionId)
       IN  /\ sessions' = r.sessions
           /\ reply' = Reply("DELETE", sessionId, r.status, r.error)
    /\ UNCHANGED <<issued, now, nextSweep, call, partition, thoughtHistory>>

\* Mutant of Get: the request is taken for the end of the session it names.
Get_EndsSession(sessionId) ==
    /\ ~Running
    /\ reply' = Reply("GET", sessionId, 405,
                      "Server-initiated SSE streams are not supported on this endpoint.")
    /\ sessions' = HandleDelete(sessions, sessionId).sessions
    /\ UNCHANGED <<issued, now, nextSweep, call, partition, thoughtHistory>>

\* app.get(MCP_ENDPOINT)
Get(sessionId) ==
    /\ ~Running
    /\ reply' = Reply("GET", sessionId, 405,
                      "Server-initiated SSE streams are not supported on this endpoint.")
    /\ UNCHANGED <<sessions, issued, now, nextSweep, call, partition, thoughtHistory>>

\* The DELETE or GET exchange is over.
FinishReply ==
    /\ reply # NoReply
    /\ reply' = NoReply
    /\ UNCHANGED <<sessions, issued, now, nextSweep, call, partition, thoughtHistory>>

\* Mutant of Expired: the sweep takes every session for idle.
Expired_Always(session, t) == TRUE

\* Mutant of Expired: a session idle for exactly the timeout is kept.
Expired_Strict(session, t) == t - session.lastActivity > SESSION_TIMEOUT_MS

\* Whether the sweep removes a session.
Expired(session, t) == t - session.lastActivity >= SESSION_TIMEOUT_MS

\* Mutant of Sweep: the timer is set to twice the timeout.
Sweep_TwiceTheInterval ==
    /\ ~Busy
    /\ now >= nextSweep
    /\ sessions' = [k \in { j \in DOMAIN sessions : ~Expired(sessions[j], now) } |-> sessions[k]]
    /\ nextSweep' = nextSweep + 2 * SESSION_TIMEOUT_MS
    /\ UNCHANGED <<issued, now, call, reply, partition, thoughtHistory>>

\* The setInterval callback.
Sweep ==
    /\ ~Busy
    /\ now >= nextSweep
    /\ sessions' = [k \in { j \in DOMAIN sessions : ~Expired(sessions[j], now) } |-> sessions[k]]
    /\ nextSweep' = nextSweep + SESSION_TIMEOUT_MS
    /\ UNCHANGED <<issued, now, call, reply, partition, thoughtHistory>>

\* Time passes, up to limit; a due timer fires before more time passes.
AdvanceUpTo(limit) ==
    /\ ~Busy
    /\ now < nextSweep
    /\ now + Tick <= limit
    /\ now' = now + Tick
    /\ UNCHANGED <<sessions, issued, nextSweep, call, reply, partition, thoughtHistory>>

Advance == AdvanceUpTo(MaxNow)

Next ==
    \/ PostMalformedJson
    \/ CanReceive /\ \E accept \in AcceptInputs : PostNotAcceptable(accept)
    \/ CanReceive /\ \E accept \in AcceptInputs, contentType \in ContentTypeInputs :
           PostUnsupportedMediaType(accept, contentType)
    \/ CanReceive /\ \E accept \in AcceptInputs, contentType \in ContentTypeInputs,
                        sessionId \in SessionHeaderInputs, body \in BodyInputs :
           Post(accept, contentType, sessionId, body)
    \/ \E i \in 1..MaxBatch : EmitFrame(i)
    \/ \E i \in 1..MaxBatch, isError \in BOOLEAN : ToolReturns(i, isError)
    \/ EndStream
    \/ Finish
    \/ \E sessionId \in SessionHeaderInputs : Delete(sessionId)
    \/ \E sessionId \in SessionHeaderInputs : Get(sessionId)
    \/ FinishReply
    \/ Sweep
    \/ Advance

Spec == Init /\ [][Next]_vars

\* The event loop runs every microtask (the continuation of a settled task,
\* the continuation of Promise.all) and ends every exchange; a tool call that
\* returns or fails is an event the loop gets to, however many other events
\* arrive meanwhile.
Fairness ==
    /\ WF_vars(\E i \in 1..MaxBatch : EmitFrame(i))
    /\ WF_vars(EndStream)
    /\ WF_vars(FinishReply)
    /\ SF_vars(\E i \in 1..MaxBatch, isError \in BOOLEAN : ToolReturns(i, isError))

\* The streams of batches of requests, with DELETEs arriving while requests
\* are in flight, under that scheduling.
StreamBodyInputs == { ArrayBody(r) : r \in SeqsUpTo(RequestInputs, MaxBatch) }

StreamNext ==
    \/ CanReceive /\ \E sessionId \in SessionHeaderInputs, body \in StreamBodyInputs :
           Post({ "application/json", "text/event-stream" }, "application/json",
                sessionId, body)
    \/ \E i \in 1..MaxBatch : EmitFrame(i)
    \/ \E i \in 1..MaxBatch, isError \in BOOLEAN : ToolReturns(i, isError)
    \/ EndStream
    \/ Finish
    \/ \E sessionId \in SessionHeaderInputs : Delete(sessionId)
    \/ FinishReply

StreamSpec == Init /\ [][StreamNext]_vars /\ Fairness

----------------------------------------------------------------------------
\* partitionMessages on its own, on the messages of any body.

\* Messages of the three kinds: requests, notifications, and objects that are
\* neither (a response, an object without method and id).
MessageInputs ==
    { Obj("ping", TRUE, 12, NoName),
      Obj("tools/list", TRUE, 13, NoName),
      Obj("initialized", FALSE, 0, NoName),
      Obj("notifications/progress", FALSE, 0, NoName),
      Obj(NoMethod, TRUE, 17, NoName),
      Obj(NoMethod, FALSE, 0, NoName),
      Obj(NotAString, TRUE, 18, NoName),
      Obj(NotAString, FALSE, 0, NoName) }

MessageBodyInputs ==
    { ArrayBody(m) : m \in SeqsUpTo(MessageInputs, MaxMessages) }
        \cup { ObjectBody(m) : m \in MessageInputs }

PartitionInit ==
    /\ sessions = EmptyStore
    /\ issued = 0
    /\ now = 0
    /\ nextSweep = SESSION_TIMEOUT_MS
    /\ \E body \in MessageBodyInputs :
           call = Call({ "application/json" }, "application/json", NoHeader, body, 0, EmptyStore)
    /\ reply = NoReply
    /\ partition = NoParts
    /\ thoughtHistory = <<>>

\* const { requests, notifications, responses } = partitionMessages(messages)
Partition ==
    /\ ~partition.done
    /\ LET r == partitionMessages(normalizeMessages(call.body).messages)
       IN  partition' = [done |-> TRUE, requests |-> r.requests,
                     notifications |-> r.notifications, responses |-> r.responses]
    /\ UNCHANGED <<sessions, issued, now, nextSweep, call, reply, thoughtHistory>>

PartitionNext == Partition

PartitionSpec == PartitionInit /\ [][PartitionNext]_vars

----------------------------------------------------------------------------
\* The tools behind tools/call: handshakes, and single tools/call requests
\* with every tool name and every kind of arguments.

ToolBodyInputs ==
    { ObjectBody(Obj("initialize", TRUE, 11, NoName)) }
        \cup { ObjectBody(ToolCall(14, name, arguments)) :
                   name \in ToolNameInputs, arguments \in ArgumentInputs }
        \cup { ObjectBody(ToolCall(15, name, arguments)) :
                   name \in { NoName, NotAString }, arguments \in ArgumentInputs }

ToolNext ==
    \/ CanReceive /\ \E sessionId \in SessionHeaderInputs, body \in ToolBodyInputs :
           Post({ "application/json", "text/event-stream" }, "application/json",
                sessionId, body)
    \/ \E i \in 1..MaxBatch : EmitFrame(i)
    \/ \E i \in 1..MaxBatch, isError \in BOOLEAN : ToolReturns(i, isError)
    \/ EndStream
    \/ Finish

ToolSpec == Init /\ [][ToolNext]_vars

----------------------------------------------------------------------------
\* createErrorResponse on its own: the task of a request has caught an error
\* of any class, with any code property and any message, and writes its frame.

\* Exceptions that are not RpcErrors: name is the class, code a `code`
\* property the object may carry.
OtherErrorInputs ==
    [name : { "Error", "TypeError", "SyntaxError" },
     code : { NoCode, InvalidParams, "ECONNREFUSED" },
     message : { "thrown", "connect ECONNREFUSED 10.0.0.5:443",
                 "Cannot read properties of undefined (reading 'name')" }]

RpcErrorInputs ==
    { RpcError(code, message) :
          code \in { MethodNotFound, InvalidParams, InvalidRequest, InternalError },
          message \in { "Unsupported method", "Internal server error" } }

ErrorInit ==
    /\ sessions = EmptyStore
    /\ issued = 0
    /\ now = 0
    /\ nextSweep = SESSION_TIMEOUT_MS
    /\ \E request \in RequestInputs, error \in OtherErrorInputs \cup RpcErrorInputs :
           call = [Call({ "application/json", "text/event-stream" }, "application/json",
                        NoHeader, ObjectBody(request), 0, EmptyStore)
                       EXCEPT !.status = 200, !.stream = "open",
                              !.tasks = << Task("queued", "error", error, "", NoSession) >>]
    /\ reply = NoReply
    /\ partition = NoParts
    /\ thoughtHistory = <<>>

ErrorNext ==
    \/ \E i \in 1..MaxBatch : EmitFrame(i)
    \/ EndStream
    \/ Finish

ErrorSpec == ErrorInit /\ [][ErrorNext]_vars

----------------------------------------------------------------------------
\* Eviction over several timeout windows: sessions are created, used by a
\* ping, a tool call or an `initialized` notification, then left alone while
\* the clock and the sweep timer run.

SweepBodyInputs ==
    { ObjectBody(Obj("initialize", TRUE, 11, NoName)),
      ObjectBody(Obj("ping", TRUE, 12, NoName)),
      ObjectBody(ToolCall(14, "legal_verify_with_api", ValidArguments)),
      ObjectBody(Obj("initialized", FALSE, 0, NoName)) }

SweepNext ==
    \/ CanReceive /\ \E sessionId \in SessionHeaderInputs, body \in SweepBodyInputs :
           Post({ "application/json", "text/event-stream" }, "application/json",
                sessionId, body)
    \/ \E i \in 1..MaxBatch : EmitFrame(i)
    \/ \E i \in 1..MaxBatch, isError \in BOOLEAN : ToolReturns(i, isError)
    \/ EndStream
    \/ Finish
    \/ Sweep
    \/ AdvanceUpTo(MaxSweepTicks * Tick)

SweepSpec == Init /\ [][SweepNext]_vars

----------------------------------------------------------------------------
\* legal_think called by several sessions: handshakes, batches of legal_think
\* calls with valid and invalid input, DELETEs, the clock and the sweep.

ThinkArgumentInputs ==
    { ValidArguments, NoArguments, Arguments("object", "number", "ok"),
      Arguments("object", "string", "bad") }

ThinkBodyInputs ==
    { ObjectBody(Obj("initialize", TRUE, 11, NoName)) }
        \cup { ArrayBody(r) :
                   r \in SeqsUpTo({ ToolCall(14, "legal_think", arguments) :
                                        arguments \in ThinkArgumentInputs }, MaxBatch) }

ThinkNext ==
    \/ CanReceive /\ \E sessionId \in SessionHeaderInputs, body \in ThinkBodyInputs :
           Post({ "application/json", "text/event-stream" }, "application/json",
                sessionId, body)
    \/ \E i \in 1..MaxBatch : EmitFrame(i)
    \/ EndStream
    \/ Finish
    \/ \E sessionId \in SessionHeaderInputs : Delete(sessionId)
    \/ FinishReply
    \/ Sweep
    \/ Advance

ThinkSpec == Init /\ [][ThinkNext]_vars

----------------------------------------------------------------------------
\* Handshakes: single initialize requests with params.protocolVersion absent,
\* not a string, each supported version, an unsupported one, the empty string.

VersionInputs ==
    { NoVersion, NotAString, "2025-06-18", "2025-03-26", "2024-11-05", "2024-10-07",
      "1999-01-01", "" }

HandshakeBodyInputs ==
    { ObjectBody(Initialize(11, v)) : v \in VersionInputs }
        \cup { ArrayBody(<< Initialize(11, v) >>) : v \in VersionInputs }

HandshakeNext ==
    \/ CanReceive /\ \E sessionId \in SessionHeaderInputs, body \in HandshakeBodyInputs :
           Post({ "application/json", "text/event-stream" }, "application/json",
                sessionId, body)
    \/ \E i \in 1..MaxBatch : EmitFrame(i)
    \/ EndStream
    \/ Finish

HandshakeSpec == Init /\ [][HandshakeNext]_vars

----------------------------------------------------------------------------
\* Bodies of messages of every shape, sent as POSTs: the handshake, then
\* requests, notifications and objects that are neither, the method and the
\* id present or absent, the method a string or not.

ClassifyBodyInputs ==
    { ArrayBody(m) : m \in SeqsUpTo(MessageInputs \cup { Obj("initialize", TRUE, 11, NoName) },
                                    MaxBatch) }
        \cup { ObjectBody(m) : m \in MessageInputs }

ClassifyNext ==
    \/ CanReceive /\ \E sessionId \in SessionHeaderInputs, body \in ClassifyBodyInputs :
           Post({ "application/json", "text/event-stream" }, "application/json",
                sessionId, body)
    \/ \E i \in 1..MaxBatch : EmitFrame(i)
    \/ EndStream
    \/ Finish

ClassifySpec == Init /\ [][ClassifyNext]_vars

----------------------------------------------------------------------------
\* What the properties below read of the call.

\* The handler decoded the body into a batch of messages (JSON objects).
HasBatch(c) ==
    /\ c.body.shape \in { "array", "object" }
    /\ Len(c.body.items) > 0
    /\ ~HasNull(c.body.items)

Notifications(c) == partitionMessages(normalizeMessages(c.body).messages).notifications

\* The Mcp-Session-Id header of the call names a session of the store as it was
\* when the call arrived.
NamesLiveSession(c) == c.sessionId # NoHeader /\ c.sessionId \in DOMAIN c.pre

HasInitializedNotification(c) ==
    \E i \in 1..Len(Notifications(c)) : Notifications(c)[i].method = "initialized"

\* A plain HTTP answer with this status, and nothing of the batch executed:
\* no task, no stream, no frame, no response header, the store as it was.
RejectedUntouched(c, status) ==
    /\ c.status = status
    /\ c.error # ""
    /\ c.stream = "none"
    /\ c.tasks = <<>>
    /\ c.frames = <<>>
    /\ c.sessionIdHeader = <<>>
    /\ sessions = c.pre

\* A batch with an initialize request and at least one other request.
MixedHandshake(c) ==
    /\ HasBatch(c)
    /\ HasInitialize(Requests(c))
    /\ Len(Requests(c)) > 1

----------------------------------------------------------------------------
\* C1: a batch holding an initialize request and another request, sent with an
\* Mcp-Session-Id naming a live session, is rejected with 400 and nothing of
\* it is executed: no task, no frame, and the store (each session's
\* initialized flag and last-activity time) is as it was before the call,
\* also when the batch carries notifications.
C1_MixedHandshakeLeavesStore ==
    (MixedHandshake(call) /\ NamesLiveSession(call)) => RejectedUntouched(call, 400)

----------------------------------------------------------------------------
\* A batch with at least one request that is not initialize.
NeedsSession(c) == HasBatch(c) /\ RequiresSession(Requests(c))

\* C2 as stated: a batch with a non-initialize request fails with 400 when
\* the Mcp-Session-Id header is missing and with 404 when it names no session
\* of the store, and nothing is dispatched and the store is as it was.
C2_NoSessionStatusAsStated ==
    NeedsSession(call) =>
        /\ call.sessionId = NoHeader => RejectedUntouched(call, 400)
        /\ (call.sessionId # NoHeader /\ ~NamesLiveSession(call))
               => RejectedUntouched(call, 404)

\* The status of a batch with a non-initialize request whose header names no
\* session: 404, but 400 when the batch also holds an initialize request and
\* no notification (the mixed batch is refused before the session is looked up).
UnknownSessionStatus(c) ==
    IF HasInitialize(Requests(c)) /\ Notifications(c) = <<>> THEN 400 ELSE 404

\* C2, amended: a batch with a non-initialize request fails before anything
\* is dispatched, the store as it was: with 400 when the header is missing;
\* when the header names no session of the store, with 404, or with 400 if the
\* batch also holds an initialize request and no notification.
C2_NoSessionNoSideEffects ==
    NeedsSession(call) =>
        /\ call.sessionId = NoHeader => RejectedUntouched(call, 400)
        /\ (call.sessionId # NoHeader /\ ~NamesLiveSession(call))
               => RejectedUntouched(call, UnknownSessionStatus(call))

\* A ping names a session that is not in the store, which holds another one:
\* 404.
C2_Witness ==
    /\ NeedsSession(call)
    /\ call.sessionId # NoHeader
    /\ ~NamesLiveSession(call)
    /\ call.status = 404
    /\ DOMAIN call.pre # {}
    /\ ~HasInitialize(Requests(call))

----------------------------------------------------------------------------
\* A batch that is one initialize request, sent without Mcp-Session-Id.
SingleInitialize(c) ==
    /\ HasBatch(c)
    /\ Len(c.body.items) = 1
    /\ isRequest(c.body.items[1])
    /\ c.body.items[1].method = "initialize"
    /\ c.sessionId = NoHeader

\* The sessions in the store that were not in it when the call arrived.
Created(c) == DOMAIN sessions \ DOMAIN c.pre

\* C3: a single initialize request without Mcp-Session-Id is answered on the
\* stream with a success frame (no HTTP error, no error frame) and inserts
\* exactly one session, initialized = FALSE, whose identifier is the
\* identifier of no session that was in the store; every other session is as
\* it was; and no two sessions of the store ever share an identifier.
C3_HandshakeCreatesFreshSession ==
    /\ \A j \in DOMAIN sessions : sessions[j].id = j
    /\ \A j, k \in DOMAIN sessions : j # k => sessions[j].id # sessions[k].id
    /\ SingleInitialize(call) =>
           /\ call.status = 200 /\ call.error = "" /\ call.stream # "none"
           /\ Len(call.tasks) = 1 /\ call.tasks[1].kind = "result"
           /\ \A j \in 1..Len(call.frames) : call.frames[j].kind = "result"
           /\ call.stream = "ended" =>
                  call.frames = <<ResultFrame(call.body.items[1].id,
                                              LATEST_PROTOCOL_VERSION, 1)>>
           /\ Cardinality(Created(call)) = 1
           /\ \A k \in Created(call) :
                  /\ sessions[k].initialized = FALSE
                  /\ \A j \in DOMAIN call.pre : call.pre[j].id # sessions[k].id
           /\ \A j \in DOMAIN call.pre : j \in DOMAIN sessions /\ sessions[j] = call.pre[j]

\* A handshake answered with its frame while another session is in the store.
C3_Witness ==
    /\ SingleInitialize(call)
    /\ call.stream = "ended"
    /\ DOMAIN call.pre # {}

----------------------------------------------------------------------------
\* C4: the response of a POST carries Mcp-Session-Id exactly when the call
\* inserted a new session into the store; the header is then set once, to the
\* identifier of that session.
C4_SessionHeaderIffCreated ==
    /\ Len(call.sessionIdHeader) <= 1
    /\ Answered =>
           IF Created(call) = {}
           THEN call.sessionIdHeader = <<>>
           ELSE \E k \in Created(call) :
                    Created(call) = { k } /\ call.sessionIdHeader = <<k>>

\* A completed response with the header set.
C4_Witness == Answered /\ call.sessionIdHeader # <<>> /\ DOMAIN call.pre # {}

----------------------------------------------------------------------------
\* The frames written for task i of the call.
FramesOf(c, i) == { j \in 1..Len(c.frames) : c.frames[j].task = i }

\* C5: on the stream of an accepted batch of N requests every frame is the
\* success or error frame of one request and carries that request's id, no
\* request has two frames, and the stream is closed with exactly N frames,
\* one per request, whatever the order in which the tasks complete.
C5_OneFramePerRequest ==
    call.stream # "none" =>
        LET requests == Requests(call)
        IN  /\ Len(requests) >= 1
            /\ \A j \in 1..Len(call.frames) :
                   /\ call.frames[j].task \in 1..Len(requests)
                   /\ call.frames[j].id = requests[call.frames[j].task].id
                   /\ call.frames[j].kind \in { "result", "error" }
            /\ \A i \in 1..Len(requests) : Cardinality(FramesOf(call, i)) <= 1
            /\ call.stream = "ended" =>
                   /\ Len(call.frames) = Len(requests)
                   /\ \A i \in 1..Len(requests) : Cardinality(FramesOf(call, i)) = 1

\* A closed stream of two frames, the frame of the second request first.
C5_Witness ==
    /\ call.stream = "ended"
    /\ Len(call.frames) = 2
    /\ call.frames[1].task = 2
    /\ call.frames[1].id # call.frames[2].id

----------------------------------------------------------------------------
\* The request fails on its own account: an unsupported method, or tools/call
\* without a tool name.
FailsAlone(request) ==
    \/ request.method \notin { "initialize", "ping", "tools/list", "tools/call" }
    \/ request.method = "tools/call" /\ ~IsString(request.name)

\* C6: in an accepted batch a request that fails gets exactly one error frame
\* and every other request still gets its own frame, a success frame unless
\* it fails itself; the call is never turned into an HTTP error and the
\* stream closes with the frames of all requests.
C6_FailureIsolated ==
    call.stream # "none" =>
        LET requests == Requests(call)
        IN  /\ call.status = 200 /\ call.error = ""
            /\ Len(call.tasks) = Len(requests)
            /\ \A i \in 1..Len(requests) :
                   /\ (call.tasks[i].pc = "done" \/ call.stream = "ended")
                          => Cardinality(FramesOf(call, i)) = 1
                   /\ \A j \in FramesOf(call, i) :
                          call.frames[j].kind =
                              IF FailsAlone(requests[i]) THEN "error" ELSE "result"

\* A closed stream holding the error frame of one request and the success
\* frame of its sibling.
C6_Witness ==
    /\ call.stream = "ended"
    /\ \E j, k \in 1..Len(call.frames) :
           call.frames[j].kind = "error" /\ call.frames[k].kind = "result"

----------------------------------------------------------------------------
\* loadSession ran for the header of the call (the batch has a notification
\* or a non-initialize request) and found the session.
Loaded(c) ==
    /\ HasBatch(c)
    /\ Notifications(c) # <<>> \/ RequiresSession(Requests(c))
    /\ NamesLiveSession(c)

\* C7: a session untouched for at least SESSION_TIMEOUT_MS is absent for
\* every later load: a load between two runs of the sweep that finds the
\* session finds one that has been idle for less than the timeout.
C7_IdleSessionAbsentOnLoad ==
    (Loaded(call) /\ call.at % SESSION_TIMEOUT_MS # 0)
        => call.at - call.pre[call.sessionId].lastActivity < SESSION_TIMEOUT_MS

----------------------------------------------------------------------------
\* A batch of notifications and no request, sent for a live session.
NotificationsOnly(c) ==
    /\ HasBatch(c)
    /\ Requests(c) = <<>>
    /\ Notifications(c) # <<>>
    /\ NamesLiveSession(c)

\* C8: a batch without requests and with at least one notification, sent for
\* a live session, is answered 202 with no body and no stream; if it holds an
\* `initialized` notification the session is then initialized and its last
\* activity is the time of the call; no other session changes.
C8_NotificationsOnlyAccepted ==
    NotificationsOnly(call) =>
        /\ call.status = 202 /\ call.error = ""
        /\ call.stream = "none" /\ call.tasks = <<>> /\ call.frames = <<>>
        /\ call.sessionIdHeader = <<>>
        /\ DOMAIN sessions = DOMAIN call.pre
        /\ \A k \in DOMAIN sessions : k # call.sessionId => sessions[k] = call.pre[k]
        /\ sessions[call.sessionId].id = call.sessionId
        /\ HasInitializedNotification(call) =>
               /\ sessions[call.sessionId].initialized
               /\ sessions[call.sessionId].lastActivity = call.at

\* An `initialized` notification for a session that was not initialized and
\* was last active earlier, with a second session in the store.
C8_Witness ==
    /\ NotificationsOnly(call)
    /\ HasInitializedNotification(call)
    /\ ~call.pre[call.sessionId].initialized
    /\ call.pre[call.sessionId].lastActivity < call.at
    /\ Cardinality(DOMAIN call.pre) = 2

----------------------------------------------------------------------------
\* C9: a batch with at least one notification needs an existing session,
\* whatever else it holds: without Mcp-Session-Id it is answered 400, with an
\* identifier that is not in the store 404, and then no notification is
\* applied, no request dispatched and the store is as it was.
C9_NotificationsNeedSession ==
    (HasBatch(call) /\ Notifications(call) # <<>>) =>
        /\ call.sessionId = NoHeader => RejectedUntouched(call, 400)
        /\ (call.sessionId # NoHeader /\ ~NamesLiveSession(call))
               => RejectedUntouched(call, 404)

\* A notification and an initialize request sent with an identifier that is
\* not in the store, which holds a session: 404.
C9_Witness ==
    /\ HasBatch(call)
    /\ Notifications(call) # <<>>
    /\ HasInitialize(Requests(call))
    /\ call.sessionId # NoHeader
    /\ ~NamesLiveSession(call)
    /\ call.status = 404
    /\ DOMAIN call.pre # {}

----------------------------------------------------------------------------
UnknownMethod(request) ==
    request.method \notin { "initialize", "ping", "tools/list", "tools/call" }

\* A batch for a live session whose requests all have unsupported methods.
UnknownMethodsOnly(c) ==
    /\ HasBatch(c)
    /\ NamesLiveSession(c)
    /\ Requests(c) # <<>>
    /\ \A i \in 1..Len(Requests(c)) : UnknownMethod(Requests(c)[i])

\* C10: a request with an unsupported method, sent for a live session, is
\* answered on the stream with an error frame of code MethodNotFound, not
\* with an HTTP error; the session stays in the store and its initialized
\* flag is what it was (or what an `initialized` notification of the same
\* batch made it), and without notifications the store is as it was.
C10_UnknownMethodFrame ==
    /\ call.stream # "none" =>
           \A i \in 1..Len(Requests(call)) :
               UnknownMethod(Requests(call)[i]) =>
                   /\ call.tasks[i].kind = "error"
                   /\ (call.tasks[i].pc = "done" \/ call.stream = "ended")
                          => FramesOf(call, i) # {}
                   /\ \A j \in FramesOf(call, i) :
                          /\ call.frames[j].kind = "error"
                          /\ call.frames[j].code = MethodNotFound
    /\ UnknownMethodsOnly(call) =>
           /\ call.status = 200 /\ call.error = "" /\ call.stream # "none"
           /\ call.sessionId \in DOMAIN sessions
           /\ sessions[call.sessionId].initialized =
                  (call.pre[call.sessionId].initialized \/ HasInitializedNotification(call))
           /\ Notifications(call) = <<>> => sessions = call.pre

\* The closed stream of one request with an unsupported method, sent for an
\* initialized session: one MethodNotFound frame.
C10_Witness ==
    /\ UnknownMethodsOnly(call)
    /\ call.stream = "ended"
    /\ Len(call.frames) = 1
    /\ call.frames[1].code = MethodNotFound
    /\ call.pre[call.sessionId].initialized

----------------------------------------------------------------------------
\* This step answers a DELETE.
DeleteAnswered == reply' # reply /\ reply'.verb = "DELETE"

\* C11: DELETE without Mcp-Session-Id is answered 400 and with an identifier
\* that is not in the store 404, the store as it was; with the identifier of
\* a session of the store it is answered 204 and removes that session alone,
\* every other session as it was; DELETE of the identifier just deleted is
\* answered 404.
C11_DeleteRemovesOneSession ==
    /\ [](reply.verb = "DELETE" =>
             /\ reply.status \in { 400, 404, 204 }
             /\ reply.status = 400 <=> reply.sessionId = NoHeader
             /\ reply.status = 204 => reply.sessionId \notin DOMAIN sessions)
    /\ [][DeleteAnswered =>
             LET h == reply'.sessionId
             IN  /\ h = NoHeader => reply'.status = 400 /\ sessions' = sessions
                 /\ (h # NoHeader /\ h \notin DOMAIN sessions)
                        => reply'.status = 404 /\ sessions' = sessions
                 /\ h \in DOMAIN sessions =>
                        /\ reply'.status = 204
                        /\ DOMAIN sessions' = DOMAIN sessions \ { h }
                        /\ \A k \in DOMAIN sessions' : sessions'[k] = sessions[k]
                 /\ (reply.verb = "DELETE" /\ reply.status = 204 /\ reply.sessionId = h)
                        => reply'.status = 404]_vars

\* The second DELETE of a session, answered 404 while another session is in
\* the store: no sweep has run yet, so the first DELETE removed it.
C11_Witness ==
    /\ reply.verb = "DELETE"
    /\ reply.status = 404
    /\ reply.sessionId \in 1..issued
    /\ now = 0
    /\ DOMAIN sessions # {}

----------------------------------------------------------------------------
\* C12: a session enters the store with initialized = FALSE, under an
\* identifier never used before; a session whose flag is TRUE keeps it TRUE
\* for as long as it is in the store, across POSTs, DELETEs, sweeps and the
\* completion of requests in flight; and the flag goes from FALSE to TRUE only
\* in the step that receives a POST carrying an `initialized` notification
\* with the Mcp-Session-Id of that session.
C12_InitializedMonotonic ==
    [][/\ \A k \in DOMAIN sessions' \ DOMAIN sessions :
              ~sessions'[k].initialized /\ k \notin 1..issued
       /\ \A k \in DOMAIN sessions \cap DOMAIN sessions' :
              /\ sessions[k].initialized => sessions'[k].initialized
              /\ (~sessions[k].initialized /\ sessions'[k].initialized) =>
                     /\ call = NoCall /\ call' # NoCall
                     /\ call'.sessionId = k
                     /\ HasInitializedNotification(call')]_vars

\* An initialized session that has been through a sweep and a later batch of
\* requests, all answered.
C12_Witness ==
    /\ call.stream = "ended"
    /\ call.session \in DOMAIN sessions
    /\ sessions[call.session].initialized
    /\ call.pre[call.session].initialized
    /\ nextSweep > SESSION_TIMEOUT_MS

----------------------------------------------------------------------------
\* The messages at the positions that f sends to list, in their order.
RECURSIVE PickFrom(_, _, _, _)
PickFrom(messages, f, list, i) ==
    IF i > Len(messages) THEN <<>>
    ELSE (IF f[i] = list THEN <<messages[i]>> ELSE <<>>) \o PickFrom(messages, f, list, i + 1)

Range(seq) == { seq[i] : i \in 1..Len(seq) }

\* C13: partitionMessages puts every message of a body (a single object or an
\* array) in exactly one of requests, notifications and responses: some
\* assignment of the positions of the input to the three lists gives each
\* list as the messages assigned to it, in the order of the input; the
\* lengths sum to the number of messages and no message is in two lists.
C13_PartitionExhaustiveDisjointOrdered ==
    partition.done =>
        LET messages == call.body.items
        IN  /\ Len(partition.requests) + Len(partition.notifications) + Len(partition.responses)
                   = Len(messages)
            /\ Range(partition.requests) \cap Range(partition.notifications) = {}
            /\ Range(partition.requests) \cap Range(partition.responses) = {}
            /\ Range(partition.notifications) \cap Range(partition.responses) = {}
            /\ \E f \in [1..Len(messages) -> { "requests", "notifications", "responses" }] :
                   /\ partition.requests = PickFrom(messages, f, "requests", 1)
                   /\ partition.notifications = PickFrom(messages, f, "notifications", 1)
                   /\ partition.responses = PickFrom(messages, f, "responses", 1)

\* An array of two different requests with a notification between them.
C13_Witness ==
    /\ partition.done
    /\ call.body.shape = "array"
    /\ Len(call.body.items) = 3
    /\ Len(partition.requests) = 2
    /\ partition.requests[1] # partition.requests[2]
    /\ partition.notifications = <<call.body.items[2]>>

----------------------------------------------------------------------------
\* A failure the POST handler detects before it opens the stream.
PreStreamFailure(c) ==
    \/ ~AcceptOk(c.accept)
    \/ ~ContentTypeOk(c.contentType)
    \/ c.body.shape \notin { "array", "object" }
    \/ c.body.items = <<>>
    \/ Notifications(c) # <<>> /\ ~NamesLiveSession(c)
    \/ RequiresSession(Requests(c)) /\ ~NamesLiveSession(c)
    \/ HasInitialize(Requests(c)) /\ Len(Requests(c)) > 1

\* One plain HTTP error response with a JSON error message: no stream, no
\* Mcp-Session-Id header, no task, no frame.
PlainError(c) ==
    /\ c.status \in { 400, 404, 406, 415, 500 }
    /\ c.error # ""
    /\ c.stream = "none"
    /\ c.sessionIdHeader = <<>>
    /\ c.tasks = <<>>
    /\ c.frames = <<>>

\* C14: a POST that fails before the stream is opened (Accept, Content-Type,
\* a body that is not a batch or an empty one, notifications or non-handshake
\* requests without a session of the store, a handshake mixed with other
\* requests) is answered with one plain HTTP error carrying a JSON error
\* message: no stream is opened, no frame written, no request dispatched;
\* and every answer without a stream other than 202 is such an error.
C14_PreStreamFailurePlainError ==
    call # NoCall =>
        /\ PreStreamFailure(call) => PlainError(call)
        /\ (call.stream = "none" /\ call.status # 202) => PlainError(call)
        /\ call.stream # "none" => call.status = 200 /\ call.error = ""

\* A handshake mixed with a tool call for a live session, refused.
C14_Witness ==
    /\ MixedHandshake(call)
    /\ NamesLiveSession(call)
    /\ \E i \in 1..Len(Requests(call)) : Requests(call)[i].method = "tools/call"
    /\ call.status = 400

----------------------------------------------------------------------------
\* Request i of the call is a tools/call with a string name.
NamedToolCall(c, i) ==
    /\ Requests(c)[i].method = "tools/call"
    /\ IsString(Requests(c)[i].name)

\* C15: callTool returns a result for every tool name and every arguments
\* value and never throws; so on an opened stream the task of a tools/call
\* request with a string name never fails: it is awaiting the remote API or
\* holds a result, flagged isError on failure, and its frame is a success
\* frame carrying that result.
C15_ToolFailureIsResult ==
    /\ \A name \in ToolNameInputs, arguments \in ArgumentInputs :
           /\ callTool(name, arguments).state \in { "returned", "pending" }
           /\ ToolBodyThrows(name, arguments) =>
                  callTool(name, arguments) = ToolOutcome("returned", TRUE)
    /\ call.stream # "none" =>
           \A i \in 1..Len(Requests(call)) :
               NamedToolCall(call, i) =>
                   /\ call.tasks[i].kind \in { "pending", "result" }
                   /\ call.tasks[i].kind = "result"
                          => call.tasks[i].payload \in { "isError", "content" }
                   /\ (call.tasks[i].pc = "done" \/ call.stream = "ended")
                          => FramesOf(call, i) # {}
                   /\ \A j \in FramesOf(call, i) :
                          call.frames[j] =
                              ResultFrame(Requests(call)[i].id, call.tasks[i].payload, i)

\* The answered call of legal_think without arguments: reading a field of
\* undefined throws inside the tool, and the frame is a success frame with
\* the isError result.
C15_Witness ==
    /\ call.stream = "ended"
    /\ Len(Requests(call)) = 1
    /\ NamedToolCall(call, 1)
    /\ Requests(call)[1].name = "legal_think"
    /\ Requests(call)[1].arguments = NoArguments
    /\ Len(call.frames) = 1
    /\ call.frames[1].kind = "result"
    /\ call.frames[1].payload = "isError"

----------------------------------------------------------------------------
\* C16: the stream of an accepted batch is closed only when every task of the
\* batch has written its frame; once it is closed nothing more is written to
\* it; and if every tool call that was dispatched returns or fails, every
\* open stream is eventually closed.
C16_StreamClosedAfterAllFrames ==
    /\ [](call.stream = "ended" =>
             /\ AllDone(call)
             /\ \A i \in 1..Len(Requests(call)) : FramesOf(call, i) # {})
    /\ [][call.stream = "ended" => (call' = call \/ call' = NoCall)]_vars
    /\ (call.stream = "open") ~> (call.stream = "ended")

\* A closed stream of two frames, one of them the result of a tool call that
\* came back from the remote API.
C16_Witness ==
    /\ call.stream = "ended"
    /\ Len(call.frames) = 2
    /\ \E i \in 1..Len(call.tasks) : call.tasks[i].payload = "content"

----------------------------------------------------------------------------
\* This step answers a GET.
GetAnswered == reply' # reply /\ reply'.verb = "GET"

----------------------------------------------------------------------------
\* C18: every operation processed against a live session refreshes its last
\* activity: after a call that applied a notification to the session of its
\* header, or dispatched a request with it bound, the session's last activity
\* is the time of the call, whatever the methods and whether they failed.
C18_EveryOperationTouches ==
    (Loaded(call) /\ call.status \in { 200, 202 } /\ call.sessionId \in DOMAIN sessions)
        => sessions[call.sessionId].lastActivity = call.at

----------------------------------------------------------------------------
\* The identifiers handed out before call c arrived.
IssuedBefore(c) ==
    1..(issued - (IF c.stream # "none" /\ HasInitialize(Requests(c)) THEN 1 ELSE 0))

\* The Mcp-Session-Id of call c is the identifier of a session that had been
\* created and was no longer in the store when the call arrived.
NamesRemovedSession(c) ==
    c.sessionId \in IssuedBefore(c) /\ c.sessionId \notin DOMAIN c.pre

\* C19 as stated, its last part: every later POST of requests with the
\* identifier of a removed session is answered 404.
C19_RemovedIdentifierAlways404 ==
    (HasBatch(call) /\ NamesRemovedSession(call) /\ Requests(call) # <<>>)
        => call.status = 404

\* C19, amended: the session of a batch is the one its header named in the
\* store when the batch arrived; when it is removed while requests are in
\* flight, no request fails for it and the stream closes with the frame of
\* every request; an identifier that has left the store never enters it
\* again; so a later DELETE with it is answered 404, and a later POST with it
\* that carries a notification or a non-initialize request is refused, the
\* store as it was: with 404, or with 400 when it mixes an initialize request
\* with other requests and carries no notification.
C19_SnapshotOfSession ==
    /\ []((call.stream # "none" /\ call.session # NoSession) =>
             call.session = call.sessionId /\ call.session \in DOMAIN call.pre)
    /\ []((call.stream # "none" /\ call.session # NoSession
              /\ call.session \notin DOMAIN sessions) =>
             /\ \A i \in 1..Len(call.tasks) :
                    call.tasks[i].kind = "error" => FailsAlone(Requests(call)[i])
             /\ call.stream = "ended" =>
                    \A i \in 1..Len(call.tasks) : Cardinality(FramesOf(call, i)) = 1)
    /\ [][\A k \in 1..issued : k \notin DOMAIN sessions => k \notin DOMAIN sessions']_vars
    /\ [][(DeleteAnswered /\ reply'.sessionId \in 1..issued
              /\ reply'.sessionId \notin DOMAIN sessions) => reply'.status = 404]_vars
    /\ []((HasBatch(call) /\ NamesRemovedSession(call)
              /\ (Notifications(call) # <<>> \/ RequiresSession(Requests(call)))) =>
             RejectedUntouched(call, UnknownSessionStatus(call)))

\* The session of a batch was removed while a tool call of the batch was
\* awaiting the remote API; the call came back and the stream is closed.
C19_Witness ==
    /\ call.stream = "ended"
    /\ call.session # NoSession
    /\ call.session \notin DOMAIN sessions
    /\ \E j \in 1..Len(call.frames) : call.frames[j].payload = "content"

----------------------------------------------------------------------------
\* This step is a run of the sweep.
SweepRan == nextSweep' # nextSweep

\* C20: a run of the sweep removes exactly the sessions whose idle time
\* (now - lastActivity) is at least SESSION_TIMEOUT_MS; every session touched
\* less than the timeout before the run is still in the store, with all its
\* attributes as they were; and the run changes nothing else.
C20_SweepRemovesExactlyIdle ==
    [][SweepRan =>
          /\ DOMAIN sessions' =
                 { k \in DOMAIN sessions : now - sessions[k].lastActivity < SESSION_TIMEOUT_MS }
          /\ \A k \in DOMAIN sessions' : sessions'[k] = sessions[k]
          /\ call' = call /\ issued' = issued /\ now' = now]_vars

\* After the first run of the sweep: of the two sessions created, the one in
\* the store was touched half a window before the run.
C20_Witness ==
    /\ nextSweep = 2 * SESSION_TIMEOUT_MS
    /\ now = SESSION_TIMEOUT_MS
    /\ issued = 2
    /\ \E k \in DOMAIN sessions :
           /\ DOMAIN sessions = { k }
           /\ sessions[k].lastActivity > 0
           /\ sessions[k].lastActivity < SESSION_TIMEOUT_MS

----------------------------------------------------------------------------
\* This step receives a POST whose only request is initialize and dispatches
\* it.
HandshakeDispatched ==
    /\ call = NoCall /\ call' # NoCall
    /\ call'.stream = "open"
    /\ Len(Requests(call')) = 1
    /\ Requests(call')[1].method = "initialize"

\* C21: a session enters the store only in the step that dispatches an
\* initialize request, and one per such step; it leaves the store only in the
\* step of a DELETE naming it (answered 204) or of a sweep that finds it idle
\* for SESSION_TIMEOUT_MS or more; every other step (ping, tools/list,
\* tools/call, unsupported methods, notifications, frames, tool returns)
\* leaves the set of sessions of the store as it was.
C21_SessionLifecycle ==
    [][/\ \A k \in DOMAIN sessions' \ DOMAIN sessions :
              /\ HandshakeDispatched
              /\ DOMAIN sessions' = DOMAIN sessions \cup { k }
       /\ \A k \in DOMAIN sessions \ DOMAIN sessions' :
              \/ /\ DeleteAnswered
                 /\ reply'.sessionId = k /\ reply'.status = 204
                 /\ DOMAIN sessions' = DOMAIN sessions \ { k }
              \/ /\ SweepRan
                 /\ now - sessions[k].lastActivity >= SESSION_TIMEOUT_MS
       /\ (~HandshakeDispatched /\ ~DeleteAnswered /\ ~SweepRan)
              => DOMAIN sessions' = DOMAIN sessions]_vars

\* An initialized session, touched after its creation, that is still in the
\* store after a run of the sweep and the DELETE of another session.
C21_Witness ==
    /\ reply.verb = "DELETE" /\ reply.status = 204
    /\ nextSweep > SESSION_TIMEOUT_MS
    /\ \E k \in DOMAIN sessions : sessions[k].initialized /\ sessions[k].lastActivity > 0

----------------------------------------------------------------------------
\* The session of the header of call c once the notifications of c are applied
\* to the store as it was when c arrived.
AfterNotifications(c) ==
    NotificationLoop(c.pre, c.sessionId, Notifications(c), c.at)[c.sessionId]

\* C22: every request of a batch is dispatched on the session as all
\* notifications of the batch left it: the first request finds exactly that
\* session, a later one finds it with at most the activity refresh of earlier
\* requests; with an `initialized` notification in the batch every request
\* finds initialized = TRUE and the last activity at the time of the call.
C22_NotificationsBeforeRequests ==
    (call.stream # "none" /\ Notifications(call) # <<>>) =>
        /\ NamesLiveSession(call)
        /\ call.tasks[1].observed = AfterNotifications(call)
        /\ \A i \in 1..Len(call.tasks) :
               /\ call.tasks[i].observed.initialized = AfterNotifications(call).initialized
               /\ call.tasks[i].observed.lastActivity
                      \in { AfterNotifications(call).lastActivity, call.at }
               /\ HasInitializedNotification(call) =>
                      /\ call.tasks[i].observed.initialized
                      /\ call.tasks[i].observed.lastActivity = call.at

\* Two requests and an `initialized` notification for a session that was not
\* initialized and was last active before the call.
C22_Witness ==
    /\ call.stream # "none"
    /\ HasInitializedNotification(call)
    /\ Len(call.tasks) = 2
    /\ ~call.pre[call.sessionId].initialized
    /\ call.pre[call.sessionId].lastActivity < call.at

----------------------------------------------------------------------------
\* Task i of the call has its frame on the stream.
Written(c, i) == FramesOf(c, i) # {}

\* C23: frames are written in completion order. Within a call the stream only
\* grows at its end; the step that completes a request puts the frame of that
\* request last; and when the tool call of a request A returns, every request
\* of the batch that is not awaiting a tool call (so completed while A was
\* waiting) already has its frame on the stream, before the frame of A,
\* whatever the positions of the two requests in the batch.
C23_FramesInCompletionOrder ==
    [][(call # NoCall /\ call' # NoCall) =>
          /\ \/ call'.frames = call.frames
             \/ \E i \in 1..Len(call.tasks) :
                    /\ call.tasks[i].pc = "queued" /\ call'.tasks[i].pc = "done"
                    /\ Len(call'.frames) = Len(call.frames) + 1
                    /\ SubSeq(call'.frames, 1, Len(call.frames)) = call.frames
                    /\ call'.frames[Len(call'.frames)].task = i
          /\ \A a \in 1..Len(call.tasks) :
                 (call.tasks[a].pc = "awaiting" /\ call'.tasks[a].pc # "awaiting") =>
                     /\ ~Written(call, a)
                     /\ \A b \in 1..Len(call.tasks) :
                            call.tasks[b].pc # "awaiting" => Written(call, b)]_vars

\* The first request of the batch awaited a tool call; the frame of the second
\* request was written first.
C23_Witness ==
    /\ call.stream = "ended"
    /\ Len(call.frames) = 2
    /\ call.frames[1].task = 2
    /\ call.frames[2].task = 1
    /\ Requests(call)[1].method = "tools/call"
    /\ call.tasks[1].payload \in { "content", "isError" }

----------------------------------------------------------------------------
\* The message has a method field, whatever it holds.
HasMethod(message) == message.method # NoMethod

\* C24: classification as stated: the requests of a call are its messages with
\* a method field and an id field, its notifications those with a method field
\* and no id field, every other message is a response; a body of responses
\* only leaves the store as it was and opens no stream, and every frame of a
\* stream answers a message that is not a response.
C24_StructuralClassification ==
    call # NoCall =>
        LET messages == call.body.items
            responses == SelectSeq(messages, LAMBDA m : ~HasMethod(m))
        IN  /\ Requests(call) = SelectSeq(messages, LAMBDA m : HasMethod(m) /\ m.hasId)
            /\ Notifications(call) = SelectSeq(messages, LAMBDA m : HasMethod(m) /\ ~m.hasId)
            /\ responses = messages =>
                   /\ sessions = call.pre
                   /\ call.stream = "none" /\ call.frames = <<>>
            /\ \A j \in 1..Len(call.frames) :
                   \E k \in 1..Len(messages) :
                       HasMethod(messages[k]) /\ messages[k].hasId
                           /\ messages[k].id = call.frames[j].id

----------------------------------------------------------------------------
\* A transport-level failure of a POST: a failure before the stream is opened,
\* or an array element that is not a message object.
TransportFailure(c) == PreStreamFailure(c) \/ HasNull(c.body.items)

\* C25: every transport-level failure of a POST is answered with 400, 404, 406
\* or 415, never with a 2xx or 5xx status.
C25_TransportFailureIs4xx ==
    (call # NoCall /\ TransportFailure(call)) => call.status \in { 400, 404, 406, 415 }

----------------------------------------------------------------------------
\* Request i of the call is a tools/call whose params.name is absent or is not
\* a string.
UnnamedToolCall(c, i) ==
    /\ Requests(c)[i].method = "tools/call"
    /\ ~IsString(Requests(c)[i].name)

\* C26: a dispatched tools/call request whose params.name is absent or not a
\* string fails with RpcError InvalidParams without callTool being called: it
\* never awaits a tool, and its one frame is the error frame of code
\* InvalidParams with the id of the request (a tools/call with a string name
\* does call callTool).
C26_ToolNameRequired ==
    call.stream # "none" =>
        \A i \in 1..Len(Requests(call)) :
            /\ NamedToolCall(call, i) => call.tasks[i].called
            /\ UnnamedToolCall(call, i) =>
                   /\ ~call.tasks[i].called
                   /\ call.tasks[i].pc # "awaiting"
                   /\ call.tasks[i].kind = "error"
                   /\ call.tasks[i].error = RpcError(InvalidParams, "Tool name is required")
                   /\ (call.tasks[i].pc = "done" \/ call.stream = "ended")
                          => FramesOf(call, i) # {}
                   /\ \A j \in FramesOf(call, i) :
                          /\ call.frames[j].kind = "error"
                          /\ call.frames[j].code = InvalidParams
                          /\ call.frames[j].id = Requests(call)[i].id

\* The stream of a tools/call whose name is not a string has ended with its
\* InvalidParams frame.
C26_Witness ==
    /\ call.stream = "ended"
    /\ Len(Requests(call)) = 1
    /\ UnnamedToolCall(call, 1)
    /\ Requests(call)[1].name = NotAString
    /\ Len(call.frames) = 1
    /\ call.frames[1].code = InvalidParams

----------------------------------------------------------------------------
\* C27: an error that is not an RpcError becomes the frame with the id of the
\* request, code InternalError and message 'Internal server error'; the frame
\* is the same for any two such errors, so it carries nothing of the cause.
C27_InternalErrorIsOpaque ==
    /\ \A e1 \in OtherErrorInputs, e2 \in OtherErrorInputs :
           createErrorResponse(11, e1, 1) = createErrorResponse(11, e2, 1)
    /\ \A j \in 1..Len(call.frames) :
           LET i == call.frames[j].task
           IN  call.tasks[i].error \in OtherErrorInputs =>
                   call.frames[j] =
                       [id |-> Requests(call)[i].id, kind |-> "error",
                        code |-> InternalError, message |-> "Internal server error",
                        payload |-> "", task |-> i]

\* A TypeError with a message and a code of its own was written as a frame.
C27_Witness ==
    /\ call.stream = "ended"
    /\ Len(call.frames) = 1
    /\ call.tasks[1].error.name = "TypeError"
    /\ call.tasks[1].error.code = "ECONNREFUSED"
    /\ call.tasks[1].error.message = "connect ECONNREFUSED 10.0.0.5:443"
    /\ call.frames[1].code = InternalError

----------------------------------------------------------------------------
Supported(version) ==
    \E k \in DOMAIN SUPPORTED_PROTOCOL_VERSIONS : SUPPORTED_PROTOCOL_VERSIONS[k] = version

\* C28: the frame of an initialize request is a result whose protocolVersion
\* is the requested version when that is a string of the supported set, the
\* latest version when it is absent, not a string or unsupported, and in every
\* case a member of the supported set.
C28_VersionNegotiation ==
    \A j \in 1..Len(call.frames) :
        LET request == Requests(call)[call.frames[j].task]
            requested == request.protocolVersion
        IN  request.method = "initialize" =>
                /\ call.frames[j].kind = "result"
                /\ Supported(call.frames[j].payload)
                /\ (requested \notin { NoVersion, NotAString } /\ Supported(requested))
                       => call.frames[j].payload = requested
                /\ (requested \in { NoVersion, NotAString } \/ ~Supported(requested))
                       => call.frames[j].payload = LATEST_PROTOCOL_VERSION

\* A handshake asking for an older supported version was answered with it.
C28_Witness ==
    /\ call.stream = "ended"
    /\ Len(call.frames) = 1
    /\ Requests(call)[1].method = "initialize"
    /\ Requests(call)[1].protocolVersion = "2024-11-05"
    /\ call.frames[1].payload = "2024-11-05"

----------------------------------------------------------------------------
NoActiveSession == RpcError(InvalidRequest, "Request requires an active session")

\* C29: every request other than initialize is dispatched with a session of
\* the store bound, so no task fails with InvalidRequest 'Request requires an
\* active session' and no frame carries that error; a batch with such a
\* request whose header is missing or names no session is answered 400 or 404
\* without a stream, a task or a frame.
C29_DispatchedRequestsHaveSession ==
    /\ \A i \in 1..Len(call.tasks) :
           /\ call.tasks[i].error # NoActiveSession
           /\ Requests(call)[i].method # "initialize" =>
                  /\ call.session # NoSession
                  /\ call.session = call.sessionId
                  /\ call.session \in DOMAIN call.pre
                  /\ call.tasks[i].observed.id = call.session
    /\ \A j \in 1..Len(call.frames) :
           ~(call.frames[j].code = NoActiveSession.code
                 /\ call.frames[j].message = NoActiveSession.message)
    /\ (NeedsSession(call) /\ ~NamesLiveSession(call)) =>
           /\ call.status \in { 400, 404 }
           /\ call.stream = "none" /\ call.tasks = <<>> /\ call.frames = <<>>

\* Two requests other than initialize were dispatched on the session of the
\* header and answered.
C29_Witness ==
    /\ call.stream = "ended"
    /\ Len(call.tasks) = 2
    /\ ~HasInitialize(Requests(call))
    /\ call.session \in DOMAIN call.pre
    /\ Len(call.frames) = 2
    /\ \A j \in 1..2 : call.frames[j].kind = "result"

----------------------------------------------------------------------------
\* The call is one initialize request, without notifications, sent with an
\* Mcp-Session-Id header.
HandshakeWithHeader(c) ==
    /\ HasBatch(c)
    /\ Len(Requests(c)) = 1
    /\ Requests(c)[1].method = "initialize"
    /\ Notifications(c) = <<>>
    /\ c.sessionId # NoHeader

----------------------------------------------------------------------------
\* One response that is not a stream: a status line (and a JSON error unless
\* 202), no Mcp-Session-Id header, no task, no frame.
NonStreamed(c) ==
    /\ c.stream = "none"
    /\ c.status \in { 202, 400, 404, 406, 415, 500 }
    /\ c.status = 202 <=> c.error = ""
    /\ c.sessionIdHeader = <<>> /\ c.tasks = <<>> /\ c.frames = <<>>

\* An opened stream: status 200, no HTTP error, at most one frame per request,
\* and exactly one each once the stream is ended.
Streamed(c) ==
    /\ c.stream \in { "open", "ended" }
    /\ c.status = 200 /\ c.error = ""
    /\ c.tasks # <<>>
    /\ \A i \in 1..Len(c.tasks) : Cardinality(FramesOf(c, i)) <= 1
    /\ c.stream = "ended" =>
           /\ Len(c.frames) = Len(c.tasks)
           /\ \A i \in 1..Len(c.tasks) : Cardinality(FramesOf(c, i)) = 1

\* C31: a POST is answered either by one response that is not a stream or by
\* an opened stream; a response that is not a stream is final as it stands;
\* an opened stream keeps status 200 and no HTTP error while its frames are
\* written, keeps every frame written, and is then ended, after which nothing
\* of the response changes.
C31_StreamOrPlainResponse ==
    [][/\ call' # NoCall => (NonStreamed(call') \/ Streamed(call'))
       /\ (call # NoCall /\ call.stream \in { "none", "ended" }) =>
              (call' = call \/ call' = NoCall)
       /\ (call # NoCall /\ call.stream = "open") =>
              /\ call' # NoCall
              /\ call'.stream \in { "open", "ended" }
              /\ call'.status = 200 /\ call'.error = ""
              /\ Len(call'.frames) >= Len(call.frames)
              /\ SubSeq(call'.frames, 1, Len(call.frames)) = call.frames
              /\ call'.stream = "ended" => AllDone(call)]_vars

\* A stream with the error frame of a failed request and the success frame of
\* another has ended with status 200.
C31_Witness ==
    /\ call.stream = "ended"
    /\ call.status = 200
    /\ Len(call.frames) = 2
    /\ call.frames[1].kind = "error"
    /\ call.frames[2].kind = "result"

----------------------------------------------------------------------------
\* C32: the Mcp-Session-Id header is set only while no frame of the response
\* is written, so before the headers are sent; the task of a request that
\* created a session sets the header to that session and then writes the
\* first frame of the stream, the success frame of the request (res.setHeader
\* never throws for headers already sent).
C32_SessionHeaderBeforeFrames ==
    [][(call # NoCall /\ call' # NoCall) =>
          /\ call'.sessionIdHeader # call.sessionIdHeader =>
                 /\ ~headersSent(call)
                 /\ call.sessionIdHeader = <<>>
          /\ \A i \in 1..Len(call.tasks) :
                 (/\ call.tasks[i].pc = "queued" /\ call'.tasks[i].pc = "done"
                  /\ call.tasks[i].newSessionId # NoSession) =>
                     /\ call'.sessionIdHeader = << call.tasks[i].newSessionId >>
                     /\ call'.frames =
                            << ResultFrame(Requests(call)[i].id, call.tasks[i].payload, i) >>]_vars

\* A handshake sent with the identifier of a live session was answered with
\* the header of the session it created and one success frame.
C32_Witness ==
    /\ call.stream = "ended"
    /\ NamesLiveSession(call)
    /\ call.sessionIdHeader # <<>>
    /\ call.sessionIdHeader[1] \in Created(call)
    /\ Len(call.frames) = 1
    /\ call.frames[1].kind = "result"

----------------------------------------------------------------------------
\* The store of call c after its notifications, with the initialized flag of
\* the session of c set to flag.
WithFlag(c, flag) ==
    [NotificationLoop(c.pre, c.session, Notifications(c), c.at)
         EXCEPT ![c.session].initialized = flag]

\* C33: ping, tools/list and tools/call are dispatched on a bound session
\* without regard to its initialized flag: on the session of the call with
\* the flag TRUE and with the flag FALSE the request yields the same task and
\* the same last activity, and leaves the flag as it found it; the request of
\* the call never fails for want of an active session, and the flag of the
\* session in the store is the one the notifications of the call left.
C33_InitializedFlagNotGating ==
    (call.stream # "none" /\ call.session # NoSession) =>
        \A i \in 1..Len(call.tasks) :
            LET request == Requests(call)[i]
                sid == call.session
                asTrue == handleRpcRequest(request, sid, WithFlag(call, TRUE), issued, call.at)
                asFalse == handleRpcRequest(request, sid, WithFlag(call, FALSE), issued, call.at)
                found == AfterNotifications(call).initialized
            IN  request.method \in { "ping", "tools/list", "tools/call" } =>
                    /\ asTrue.task = asFalse.task
                    /\ asTrue.sessions[sid].lastActivity = asFalse.sessions[sid].lastActivity
                    /\ asTrue.sessions[sid].initialized
                    /\ ~asFalse.sessions[sid].initialized
                    /\ call.tasks[i].error # NoActiveSession
                    /\ call.tasks[i].observed.initialized = found
                    /\ sid \in DOMAIN sessions => sessions[sid].initialized = found

\* A ping and a tool call on a session that never received `initialized` were
\* both answered with success frames, the session still not initialized.
C33_Witness ==
    /\ call.stream = "ended"
    /\ call.session \in DOMAIN sessions
    /\ ~call.pre[call.session].initialized
    /\ ~sessions[call.session].initialized
    /\ Len(call.frames) = 2
    /\ \A j \in 1..2 : call.frames[j].kind = "result"
    /\ \E i \in 1..2 : Requests(call)[i].method = "ping"
    /\ \E i \in 1..2 : NamedToolCall(call, i)

----------------------------------------------------------------------------
\* C34: with the sweep timer firing on time, a session in the store has been
\* idle for less than two timeout windows, and no run of the sweep at or
\* after its last activity plus the timeout has taken place yet (the latest
\* run was at nextSweep - SESSION_TIMEOUT_MS); a run of the sweep keeps
\* exactly the sessions whose last activity plus the timeout is still ahead,
\* so a session left alone stays in the store, where loadSession finds it,
\* until the first run at or after that time, which removes it.
C34_BoundedEvictionDelay ==
    [][/\ now' <= nextSweep'
       /\ \A k \in DOMAIN sessions' :
              /\ now' - sessions'[k].lastActivity < 2 * SESSION_TIMEOUT_MS
              /\ nextSweep' - SESSION_TIMEOUT_MS
                     < sessions'[k].lastActivity + SESSION_TIMEOUT_MS
              /\ loadSession(sessions', k)
       /\ SweepRan =>
              \A k \in DOMAIN sessions :
                  k \in DOMAIN sessions'
                      <=> now < sessions[k].lastActivity + SESSION_TIMEOUT_MS]_vars

\* A tool call received half a window after the start touched its session and
\* is still awaiting the remote API; the session survived the sweep at one
\* window and was removed by the sweep at two windows, one and a half windows
\* after its last activity.
C34_Witness ==
    /\ call.stream = "open"
    /\ call.at = Tick
    /\ call.session # NoSession
    /\ call.session \notin DOMAIN sessions
    /\ now = 2 * SESSION_TIMEOUT_MS
    /\ nextSweep = 3 * SESSION_TIMEOUT_MS

----------------------------------------------------------------------------
\* The requests of call c that are legal_think calls with input that passes
\* validation.
SuccessfulThoughts(c) ==
    { i \in 1..Len(c.tasks) :
          /\ Requests(c)[i].method = "tools/call"
          /\ Requests(c)[i].name = "legal_think"
          /\ ~ToolBodyThrows("legal_think", Requests(c)[i].arguments) }

FailedThoughts(c) ==
    { i \in 1..Len(c.tasks) :
          /\ Requests(c)[i].method = "tools/call"
          /\ Requests(c)[i].name = "legal_think"
          /\ ToolBodyThrows("legal_think", Requests(c)[i].arguments) }

\* C35: thoughtHistory is one list for all sessions. No step removes or
\* changes an entry (a DELETE and a sweep included); the step that dispatches
\* a batch appends one entry per successful legal_think call of the batch,
\* labelled with the session of the call, and nothing for a failed call; the
\* k-th successful call of the batch reports the length of the list before
\* the batch plus k, whichever sessions made the earlier calls; a failed call
\* is an isError result that reports no length; every other step leaves the
\* list as it was.
C35_SharedThoughtHistory ==
    [][/\ Len(thoughtHistory') >= Len(thoughtHistory)
       /\ SubSeq(thoughtHistory', 1, Len(thoughtHistory)) = thoughtHistory
       /\ IF call = NoCall /\ call' # NoCall /\ call'.stream = "open"
          THEN /\ Len(thoughtHistory') =
                      Len(thoughtHistory) + Cardinality(SuccessfulThoughts(call'))
               /\ \A j \in Len(thoughtHistory) + 1..Len(thoughtHistory') :
                      thoughtHistory'[j].session = call'.session
               /\ \A i \in SuccessfulThoughts(call') :
                      /\ call'.tasks[i].payload = "content"
                      /\ call'.tasks[i].thoughtHistoryLength =
                             Len(thoughtHistory)
                                 + Cardinality({ j \in SuccessfulThoughts(call') : j <= i })
               /\ \A i \in FailedThoughts(call') :
                      /\ call'.tasks[i].payload = "isError"
                      /\ call'.tasks[i].thoughtHistoryLength = 0
          ELSE thoughtHistory' = thoughtHistory]_vars

\* A legal_think call of one session reports a length that counts the call of
\* another session, which has since been removed from the store.
C35_Witness ==
    /\ call.stream = "ended"
    /\ Len(thoughtHistory) = 2
    /\ thoughtHistory[1].session # thoughtHistory[2].session
    /\ thoughtHistory[1].session \notin DOMAIN sessions
    /\ thoughtHistory[2].session = call.session
    /\ SuccessfulThoughts(call) = { 2 }
    /\ FailedThoughts(call) = { 1 }
    /\ call.tasks[2].thoughtHistoryLength = 2

====
